---- MODULE Spec2Model ----
(***************************************************************************)
(* Conditional compilation and file inclusion in the SuperPascal parser.   *)
(*                                                                         *)
(*   parser/src/directives.rs    DirectiveEvaluator: symbol set,           *)
(*                               conditional stack, is_active              *)
(*   parser/src/declarations.rs  parse_program, parse_directive,           *)
(*                               skip_until_conditional_end,               *)
(*                               handle_include_directive, parse_block,    *)
(*                               parse_declarations_only                   *)
(*                                                                         *)
(* A directive body is a record [t, s, e]: its kind, its symbol or file    *)
(* name, and (IF/ELSEIF) its expression.  An expression is the sequence of *)
(* its blank-separated words.                                              *)
(***************************************************************************)
EXTENDS Integers, Sequences, FiniteSets, TLC

\* Nesting depth of open conditionals explored by the evaluator specification.
MaxDepth == 3

\* Directive symbols (stored upper-cased by parse_directive).
Symbols == {"A", "B"}

(***************************************************************************)
(* Preprocessor expressions (directives.rs, evaluate_expression and its    *)
(* helpers).  The code works on the text of the expression; a word keeps   *)
(* what the code's string tests can tell apart: operator words, boolean    *)
(* literals, Defined(S) with the spelling of the function name, an integer *)
(* comparison, a bare symbol.                                              *)
(***************************************************************************)
Word(k, s, sp, l, r) == [k |-> k, s |-> s, sp |-> sp, l |-> l, r |-> r]
WNot == Word("not", "NOT", "", 0, 0)
WAnd == Word("and", "AND", "", 0, 0)
WOr == Word("or", "OR", "", 0, 0)
WLit(b) == Word("lit", IF b THEN "TRUE" ELSE "FALSE", "", 0, 0)
WDef(sp, s) == Word("def", s, sp, 0, 0)
WSym(s) == Word("sym", s, "", 0, 0)
WCmp(l, op, r) == Word("cmp", op, "", l, r)

None == [some |-> FALSE, v |-> FALSE]
Some(b) == [some |-> TRUE, v |-> b]

\* str::to_uppercase on the expression text: only the spelling of the
\* Defined function differs between an expression and its upper-cased copy
\* (symbols and operator words are written in upper case here).
ToUpper(expr) ==
    [i \in 1..Len(expr) |->
        IF expr[i].k = "def" THEN [expr[i] EXCEPT !.sp = "DEFINED"] ELSE expr[i]]

\* expr.contains(" OP "): the operator word with a word on either side.
ContainsOp(expr, k) == \E i \in 2..(Len(expr) - 1) : expr[i].k = k

\* expr.split(" OP "): cut at each operator word that has text before it in
\* the current piece and text after it.
RECURSIVE SplitAt(_, _)
SplitAt(expr, k) ==
    IF ~ContainsOp(expr, k) THEN <<expr>>
    ELSE LET i == CHOOSE i \in 2..(Len(expr) - 1) :
                      /\ expr[i].k = k
                      /\ \A j \in 2..(i - 1) : expr[j].k # k
         IN  <<SubSeq(expr, 1, i - 1)>> \o SplitAt(SubSeq(expr, i + 1, Len(expr)), k)

\* defined_symbols.contains(text.to_uppercase()): a text of several words, a
\* Defined(..) call or a comparison is never the name of a symbol.
TextDefined(syms, expr) ==
    /\ Len(expr) = 1
    /\ expr[1].k \in {"sym", "not", "and", "or"}
    /\ expr[1].s \in syms

\* evaluate_integer_comparison: the operator table is searched in order; a hit
\* whose sides do not both parse as i32 is passed over, so an integer
\* comparison is decided by its own operator.
EvaluateIntegerComparison(expr) ==
    IF Len(expr) = 1 /\ expr[1].k = "cmp"
    THEN LET w == expr[1] IN
         Some(CASE w.s = ">=" -> w.l >= w.r
                [] w.s = "<=" -> w.l <= w.r
                [] w.s = ">" -> w.l > w.r
                [] w.s = "<" -> w.l < w.r
                [] w.s \in {"=", "=="} -> w.l = w.r
                [] OTHER -> w.l # w.r)
    ELSE None

\* evaluate_simple_expression: always answers (Some).
EvaluateSimpleExpression(syms, expr) ==
    LET up == ToUpper(expr) IN
    IF Len(expr) = 1 /\ up[1].k = "def" /\ up[1].sp = "DEFINED"
    THEN Some(expr[1].s \in syms)
    ELSE IF Len(expr) = 1 /\ up[1].k = "lit"
    THEN Some(up[1].s = "TRUE")
    ELSE IF EvaluateIntegerComparison(expr).some
    THEN EvaluateIntegerComparison(expr)
    ELSE Some(TextDefined(syms, up))

\* evaluate_boolean_expression, the "NOT " case: rest is the text after
\* "NOT " (already upper-cased, so the test for "Defined(" never succeeds) and
\* inner is what the function answers for rest.
BooleanNot(syms, rest, inner) ==
    IF inner.some THEN Some(~inner.v)
    ELSE IF Len(rest) = 1 /\ rest[1].k = "def" /\ rest[1].sp = "Defined"
    THEN Some(rest[1].s \notin syms)
    ELSE IF Len(rest) = 1 /\ rest[1].k = "lit"
    THEN Some(rest[1].s # "TRUE")
    ELSE Some(~TextDefined(syms, rest))

\* The " OR " case: vals are the answers for the pieces between the ORs.
BooleanOr(vals) ==
    IF \E i \in 1..Len(vals) : ~vals[i].some THEN None
    ELSE Some(\E i \in 1..Len(vals) : vals[i].v)

\* The " AND " case: every piece is a simple expression.
BooleanAnd(syms, parts) ==
    Some(\A i \in 1..Len(parts) : EvaluateSimpleExpression(syms, parts[i]).v)

\* evaluate_boolean_expression: NOT first, then OR, then AND; None when the
\* expression has none of them.  A piece of an OR that holds an AND is handed
\* to the function itself, any other piece to evaluate_simple_expression.
RECURSIVE EvaluateBooleanExpression(_, _)
RECURSIVE OrPieces(_, _)
OrPieces(syms, parts) ==
    [i \in 1..Len(parts) |->
        IF ContainsOp(parts[i], "and")
        THEN EvaluateBooleanExpression(syms, parts[i])
        ELSE EvaluateSimpleExpression(syms, parts[i])]

EvaluateBooleanExpression(syms, expr) ==
    IF Len(expr) >= 2 /\ expr[1].k = "not"
    THEN BooleanNot(syms, Tail(ToUpper(expr)),
                    EvaluateBooleanExpression(syms, Tail(ToUpper(expr))))
    ELSE IF ContainsOp(expr, "or")
    THEN BooleanOr(OrPieces(syms, SplitAt(ToUpper(expr), "or")))
    ELSE IF ContainsOp(expr, "and")
    THEN BooleanAnd(syms, SplitAt(ToUpper(expr), "and"))
    ELSE None

\* evaluate_expression.  Its "NOT Defined(..)" case (lines 282-288) is never
\* reached: evaluate_boolean_expression answers every text that starts with
\* "NOT ".
EvaluateExpression(syms, expr) ==
    LET b == EvaluateBooleanExpression(syms, expr) IN
    IF b.some THEN b.v
    ELSE IF Len(expr) = 1 /\ expr[1].k = "def" /\ expr[1].sp = "Defined"
    THEN expr[1].s \in syms
    ELSE IF Len(expr) = 1 /\ expr[1].k = "lit"
    THEN expr[1].s = "TRUE"
    ELSE IF EvaluateIntegerComparison(expr).some
    THEN EvaluateIntegerComparison(expr).v
    ELSE TextDefined(syms, ToUpper(expr))

(***************************************************************************)
(* DirectiveType and DirectiveEvaluator (directives.rs).                   *)
(***************************************************************************)
Dir(t, s, e) == [t |-> t, s |-> s, e |-> e]
DIfDef(s) == Dir("IfDef", s, <<>>)
DIfNDef(s) == Dir("IfNDef", s, <<>>)
DIf(e) == Dir("If", "", e)
DElseIf(e) == Dir("ElseIf", "", e)
DElse == Dir("Else", "", <<>>)
DEndIf == Dir("EndIf", "", <<>>)
DDefine(s) == Dir("Define", s, <<>>)
DUndef(s) == Dir("Undef", s, <<>>)
DInclude(f) == Dir("Include", f, <<>>)
DOther == Dir("Other", "", <<>>)

Openers == {"IfDef", "IfNDef", "If"}

\* DirectiveEvaluator::with_symbols
WithSymbols(symbols) == [syms |-> symbols, stack |-> <<>>, active |-> TRUE]

\* The value evaluate returns: the evaluator after the call, Ok or Err, and
\* the pair (should_include, should_skip).
EvalOk(ev, inc, skip) == [ev |-> ev, ok |-> TRUE, inc |-> inc, skip |-> skip]
\* An Err that leaves the evaluator inactive.
EvalErrDeactivated(ev) ==
    [ev |-> [ev EXCEPT !.active = FALSE], ok |-> FALSE, inc |-> FALSE, skip |-> FALSE]
EvalErr(ev) == [ev |-> ev, ok |-> FALSE, inc |-> FALSE, skip |-> FALSE]

Opened(ev, cond) ==
    LET a == ev.active /\ cond IN
    EvalOk([ev EXCEPT !.stack = Append(ev.stack, ev.active), !.active = a], a, ~a)

\* What ENDIF sets after the pop: is_active from the new top of the stack.
EndIfRestore(stack) ==
    LET popped == SubSeq(stack, 1, Len(stack) - 1) IN
    [stack |-> popped,
     active |-> IF popped # <<>> THEN popped[Len(popped)] ELSE TRUE]

\* DirectiveEvaluator::evaluate
Evaluate(ev, d) ==
    CASE d.t = "IfDef" -> Opened(ev, d.s \in ev.syms)
      [] d.t = "IfNDef" -> Opened(ev, d.s \notin ev.syms)
      [] d.t = "If" -> Opened(ev, EvaluateExpression(ev.syms, d.e))
      [] d.t = "ElseIf" ->
            IF ev.stack = <<>> THEN EvalErr(ev)
            ELSE LET parent_active == ev.stack[Len(ev.stack)]
                     a == IF parent_active
                          THEN IF ev.active THEN FALSE
                               ELSE EvaluateExpression(ev.syms, d.e)
                          ELSE FALSE
                 IN  EvalOk([ev EXCEPT !.active = a], a, ~a)
      [] d.t = "Else" ->
            IF ev.stack = <<>> THEN EvalErr(ev)
            ELSE LET parent_active == ev.stack[Len(ev.stack)]
                     a == IF parent_active THEN ~ev.active ELSE FALSE
                 IN  EvalOk([ev EXCEPT !.active = a], a, ~a)
      [] d.t = "EndIf" ->
            IF ev.stack = <<>> THEN EvalErr(ev)
            ELSE LET r == EndIfRestore(ev.stack) IN
                 EvalOk([ev EXCEPT !.stack = r.stack, !.active = r.active],
                        TRUE, FALSE)
      [] d.t = "Define" ->
            EvalOk(IF ev.active THEN [ev EXCEPT !.syms = @ \cup {d.s}] ELSE ev,
                   TRUE, FALSE)
      [] d.t = "Undef" ->
            EvalOk(IF ev.active THEN [ev EXCEPT !.syms = @ \ {d.s}] ELSE ev,
                   TRUE, FALSE)
      [] OTHER -> EvalOk(ev, ev.active, ~ev.active)

(***************************************************************************)
(* The branch structure of the directives met so far, kept beside the      *)
(* evaluator as a history the properties are stated against.  One entry    *)
(* per open conditional:                                                   *)
(*   cur         the condition of the branch now open holds (for ELSEIF    *)
(*               and ELSE: and no earlier branch of the chain matched)     *)
(*   matched     the condition of some branch of the chain held            *)
(*   seen        is_active was true in some branch of the chain            *)
(*   preActive, preStack   is_active and the stack just before the opener  *)
(***************************************************************************)
BranchCond(syms, d) ==
    CASE d.t = "IfDef" -> d.s \in syms
      [] d.t = "IfNDef" -> d.s \notin syms
      [] OTHER -> EvaluateExpression(syms, d.e)

NoEvent ==
    [kind |-> "None", e |-> <<>>, ok |-> TRUE, inc |-> TRUE, skip |-> FALSE,
     seenBefore |-> FALSE, inBranch |-> TRUE,
     symsBefore |-> {}, preActive |-> TRUE, preStack |-> <<>>]

\* Every open conditional is in a branch whose condition holds.
InActiveBranch(hist) == \A i \in 1..Len(hist) : hist[i].cur

NewTracked(symbols) == [ev |-> WithSymbols(symbols), hist |-> <<>>, last |-> NoEvent]

\* The record of one evaluate call: what it was, what it returned, and the
\* state it found.
StepEvent(x, d, r, n) ==
    [kind |-> d.t, e |-> d.e, ok |-> r.ok, inc |-> r.inc, skip |-> r.skip,
     seenBefore |-> IF n > 0 THEN x.hist[n].seen ELSE FALSE,
     inBranch |-> InActiveBranch(x.hist),
     symsBefore |-> x.ev.syms,
     preActive |-> IF n > 0 THEN x.hist[n].preActive ELSE TRUE,
     preStack |-> IF n > 0 THEN x.hist[n].preStack ELSE <<>>]

\* The open conditionals after the call; c is the condition of the directive.
StepHist(x, d, r, c, n) ==
    IF ~r.ok THEN x.hist
    ELSE CASE d.t \in Openers ->
                Append(x.hist, [cur |-> c, matched |-> c, seen |-> r.ev.active,
                                preActive |-> x.ev.active, preStack |-> x.ev.stack])
           [] d.t = "ElseIf" ->
                [x.hist EXCEPT ![n] = [@ EXCEPT !.cur = ~x.hist[n].matched /\ c,
                                                !.matched = @ \/ c,
                                                !.seen = @ \/ r.ev.active]]
           [] d.t = "Else" ->
                [x.hist EXCEPT ![n] = [@ EXCEPT !.cur = ~x.hist[n].matched,
                                                !.matched = TRUE,
                                                !.seen = @ \/ r.ev.active]]
           [] d.t = "EndIf" -> SubSeq(x.hist, 1, n - 1)
           [] OTHER -> x.hist

StepWith(x, d, r, c) ==
    [ev |-> r.ev,
     hist |-> StepHist(x, d, r, c, Len(x.hist)),
     last |-> StepEvent(x, d, r, Len(x.hist))]

\* One call of evaluate, with the history brought up to date.
Step(x, d) == StepWith(x, d, Evaluate(x.ev, d), BranchCond(x.ev.syms, d))

(***************************************************************************)
(* Tokens.  A file is the sequence of its tokens; the Eof token stands at  *)
(* the position after the last one.  A Decl token stands for one whole     *)
(* declaration section ("const K = 1;", "var V: integer;", ...) and a Stmt *)
(* token for one statement: the functions that parse them (parse_const_-   *)
(* decls, parse_statement, ...) take no directive token and never look at  *)
(* is_active, so the directive machinery sees such a run of tokens as one. *)
(***************************************************************************)
Tok(k, sec, n, d) == [k |-> k, sec |-> sec, n |-> n, d |-> d]
TDir(d) == Tok("Directive", "", "", d)
TProgram == Tok("KwProgram", "", "", DOther)
TIdent(n) == Tok("Ident", "", n, DOther)
TSemi == Tok("Semi", "", "", DOther)
TBegin == Tok("KwBegin", "", "", DOther)
TEnd == Tok("KwEnd", "", "", DOther)
TDot == Tok("Dot", "", "", DOther)
TDecl(sec, n) == Tok("Decl", sec, n, DOther)
TStmt(n) == Tok("Stmt", "", n, DOther)
TEof == Tok("Eof", "", "", DOther)

\* The file system maps a name to the tokens of the file, or to NoFile when
\* the name resolves to no file.
NoFile == <<Tok("NoFile", "", "", DOther)>>

\* ast::Block, ast::Directive, ast::Program
EmptyBlock ==
    [directives |-> <<>>, label_decls |-> <<>>, const_decls |-> <<>>,
     type_decls |-> <<>>, var_decls |-> <<>>, threadvar_decls |-> <<>>,
     proc_decls |-> <<>>, func_decls |-> <<>>, operator_decls |-> <<>>,
     statements |-> <<>>]
DirectiveNode(d) == [node |-> "Directive", content |-> d]
BlockNode(b) == [node |-> "Block", block |-> b]
ProgramNode(name, directives, block) ==
    [node |-> "Program", name |-> name, directives |-> directives, block |-> block]
NoAst == [node |-> "None"]

\* The section a declaration keyword fills (parse_block, lines 564-581).
AddDecl(b, tok) ==
    CASE tok.sec = "label" -> [b EXCEPT !.label_decls = Append(@, tok.n)]
      [] tok.sec = "const" -> [b EXCEPT !.const_decls = Append(@, tok.n)]
      [] tok.sec = "type" -> [b EXCEPT !.type_decls = Append(@, tok.n)]
      [] tok.sec = "var" -> [b EXCEPT !.var_decls = Append(@, tok.n)]
      [] tok.sec = "threadvar" -> [b EXCEPT !.threadvar_decls = Append(@, tok.n)]
      [] tok.sec = "proc" -> [b EXCEPT !.proc_decls = Append(@, tok.n)]
      [] tok.sec = "func" -> [b EXCEPT !.func_decls = Append(@, tok.n)]
      [] OTHER -> [b EXCEPT !.operator_decls = Append(@, tok.n)]

\* The merge of an included block into the block of parse_block
\* (lines 541-550): every section but the statements.
MergeDeclarations(b, inc) ==
    [b EXCEPT !.directives = @ \o inc.directives,
              !.label_decls = @ \o inc.label_decls,
              !.const_decls = @ \o inc.const_decls,
              !.type_decls = @ \o inc.type_decls,
              !.var_decls = @ \o inc.var_decls,
              !.threadvar_decls = @ \o inc.threadvar_decls,
              !.proc_decls = @ \o inc.proc_decls,
              !.func_decls = @ \o inc.func_decls,
              !.operator_decls = @ \o inc.operator_decls]

\* The merge of parse_declarations_only (lines 416-425) and of parse_program
\* (lines 95-104): every section.
MergeBlock(b, inc) ==
    [MergeDeclarations(b, inc) EXCEPT !.statements = @ \o inc.statements]

\* parse_program, lines 91-110: what was collected before PROGRAM goes into
\* the program's block, an included block section by section.
RECURSIVE MergeCollected(_, _)
MergeCollected(b, nodes) ==
    IF nodes = <<>> THEN b
    ELSE MergeCollected(
            IF Head(nodes).node = "Block" THEN MergeBlock(b, Head(nodes).block)
            ELSE [b EXCEPT !.directives = Append(@, Head(nodes))],
            Tail(nodes))

(***************************************************************************)
(* A parser (super::Parser) with the place it has reached.                 *)
(*   file, pos   the source and the cursor                                 *)
(*   x           its directive evaluator, with the branch history          *)
(*   included    included_files                                            *)
(*   pc          "pre"    parse_program, loop before PROGRAM               *)
(*               "block"  parse_block, declaration loop                    *)
(*               "stmts"  parse_block, statements                          *)
(*               "trail"  parse_program, loop after the final "."          *)
(*               "decls"  parse_declarations_only, main loop               *)
(*               "dstmts" parse_declarations_only, statements after BEGIN   *)
(*               "skip"   skip_until_conditional_end (called from ret)     *)
(*               "done"   parse_declarations_only has built its Block      *)
(*   depth       the depth counter of skip_until_conditional_end           *)
(*   collected   parse_program's directives vector                         *)
(*   block       the Block being assembled                                 *)
(* and, as history: skipFrom/skipBase, the directive that started the last *)
(* skip and the length of the conditional stack then; note, what the last  *)
(* step of this parser did; childSyms and childBlock, the symbol set the   *)
(* last sub-parser ended with and the Block it returned; hostBefore, this  *)
(* parser's block when that Block came back.                               *)
(***************************************************************************)
NewParser(file, symbols, incl, pc) ==
    [file |-> file, pos |-> 1, x |-> NewTracked(symbols), included |-> incl,
     pc |-> pc, ret |-> pc, depth |-> 0, name |-> "",
     collected |-> <<>>, block |-> EmptyBlock,
     skipFrom |-> "None", skipBase |-> 0, note |-> "", childSyms |-> {},
     childBlock |-> EmptyBlock, hostBefore |-> EmptyBlock]

\* What one step of a parser comes to: it goes on as fr, it goes on and
\* starts a sub-parser, or the parse ends with an error or a Program.
Cont(fr) == [t |-> "cont", fr |-> fr, child |-> fr, err |-> "", ast |-> NoAst]
Call(fr, child) == [t |-> "call", fr |-> fr, child |-> child, err |-> "", ast |-> NoAst]
Fail(fr, err) == [t |-> "fail", fr |-> fr, child |-> fr, err |-> err, ast |-> NoAst]
Finish(fr, ast) == [t |-> "ok", fr |-> fr, child |-> fr, err |-> "", ast |-> ast]

\* Parser::current and Parser::advance.  The cursor stays on Eof.
Current(src, fr) == IF fr.pos <= Len(src) THEN src[fr.pos] ELSE TEof
Advance(src, fr) ==
    [fr EXCEPT !.pos = IF @ <= Len(src) THEN @ + 1 ELSE @,
               !.note = IF fr.pos <= Len(src) THEN "" ELSE "advanceAtEof"]

\* A node handed back to the loop that called parse_directive: the loops of
\* parse_program push it on directives, those of parse_block and
\* parse_declarations_only on the block's directives.
PushNode(fr, pc, node) ==
    IF pc \in {"pre", "trail"}
    THEN [fr EXCEPT !.collected = Append(@, node)]
    ELSE [fr EXCEPT !.block.directives = Append(@, node)]

\* parse_directive, lines 204-214: which directives become AST leaves.
IncludeInAst(d, should_include) ==
    IF d.t \in Openers \cup {"ElseIf", "Else", "EndIf"} THEN TRUE ELSE should_include

\* resolve_include_path and fs::canonicalize, for files that all lie in the
\* directory of the including file: the name is the path, found iff it exists.
FileExists(fs, name) == name \in DOMAIN fs /\ fs[name] # NoFile

\* handle_include_directive.  fr is the including parser with the directive
\* consumed and evaluated.
HandleIncludeDirective(fs, fr, filename) ==
    IF ~FileExists(fs, filename) THEN Fail(fr, "IncludeNotFound")
    ELSE IF filename \in fr.included THEN Fail(fr, "Circular")
    ELSE Call([fr EXCEPT !.included = @ \cup {filename}, !.note = "include"],
              NewParser(filename, fr.x.ev.syms, fr.included \cup {filename}, "decls"))

\* parse_directive after evaluate has returned Ok: fr1 is the parser with the
\* directive consumed and evaluated; then the call of
\* skip_until_conditional_end or of handle_include_directive, or the node.
AfterEvaluate(fs, fr, d, last, fr1) ==
    IF last.skip
    THEN Cont([fr1 EXCEPT !.pc = "skip", !.ret = fr.pc, !.depth = 1,
                          !.skipFrom = d.t, !.skipBase = Len(fr1.x.ev.stack)])
    ELSE IF d.t = "Include"
    THEN HandleIncludeDirective(fs, fr1, d.s)
    ELSE IF IncludeInAst(d, last.inc)
    THEN Cont(PushNode(fr1, fr.pc, DirectiveNode(d)))
    ELSE Cont(fr1)

Evaluated(fs, fr, d, x1) ==
    IF ~x1.last.ok THEN Fail(fr, "NoMatchingIf")
    ELSE AfterEvaluate(fs, fr, d, x1.last,
                       [fr EXCEPT !.pos = @ + 1, !.x = x1, !.note = ""])

\* parse_directive
ParseDirectiveStep(fs, fr) ==
    Evaluated(fs, fr, Current(fs[fr.file], fr).d, Step(fr.x, Current(fs[fr.file], fr).d))

\* Which nested directives raise the depth counter of the skip.
RaisesDepth(d) == d.t \in {"IfDef", "IfNDef"}

\* SkipDirective with the ELSE of the opener treated as any other directive.
SkipDirectiveElseIgnored(fr, d, fr1) ==
    IF RaisesDepth(d) THEN Cont([fr1 EXCEPT !.depth = @ + 1])
    ELSE IF d.t = "EndIf" /\ fr.depth = 1
    THEN Cont([fr1 EXCEPT !.pc = fr.ret, !.depth = 0, !.note = "skipEndEndIf"])
    ELSE IF d.t = "EndIf" THEN Cont([fr1 EXCEPT !.depth = @ - 1])
    ELSE Cont(fr1)

\* skip_until_conditional_end at a directive that evaluate has accepted, and,
\* when the loop ends, the rest of parse_directive (lines 165-187): at ELSE
\* the ELSE token is consumed and returned as a node, at ENDIF nothing is
\* returned.
SkipDirective(fr, d, fr1) ==
    IF RaisesDepth(d) THEN Cont([fr1 EXCEPT !.depth = @ + 1])
    ELSE IF d.t = "Else" /\ fr.depth = 1
    THEN Cont([PushNode(fr1, fr.ret, DirectiveNode(d))
                  EXCEPT !.pc = fr.ret, !.depth = 0, !.note = "skipEndElse"])
    ELSE IF d.t = "EndIf" /\ fr.depth = 1
    THEN Cont([fr1 EXCEPT !.pc = fr.ret, !.depth = 0, !.note = "skipEndEndIf"])
    ELSE IF d.t = "EndIf" THEN Cont([fr1 EXCEPT !.depth = @ - 1])
    ELSE Cont(fr1)

SkipEvaluated(fr, d, x1) ==
    IF ~x1.last.ok THEN Fail(fr, "NoMatchingIf")
    ELSE SkipDirective(fr, d, [fr EXCEPT !.pos = @ + 1, !.x = x1, !.note = ""])

\* One turn of the loop of skip_until_conditional_end.
SkipStep(fs, fr) ==
    IF Current(fs[fr.file], fr).k # "Directive" THEN Cont(Advance(fs[fr.file], fr))
    ELSE SkipEvaluated(fr, Current(fs[fr.file], fr).d,
                       Step(fr.x, Current(fs[fr.file], fr).d))

\* parse_program, lines 37-69, at a token that is no directive.
ProgramLoopStep(fs, fr) ==
    LET tok == Current(fs[fr.file], fr) IN
    IF ~fr.x.ev.active
    THEN IF tok.k = "Eof" THEN Fail(fr, "UnmatchedAtEof")
         ELSE Cont(Advance(fs[fr.file], fr))
    ELSE IF tok.k = "Eof" THEN Fail(fr, "ExpectedProgram")
    ELSE Cont(Advance(fs[fr.file], fr))

\* parse_program, lines 71-88: PROGRAM identifier ";" and into parse_block.
ProgramHeader(fs, fr) ==
    LET src == fs[fr.file] IN
    IF fr.pos + 2 <= Len(src) /\ src[fr.pos + 1].k = "Ident" /\ src[fr.pos + 2].k = "Semi"
    THEN Cont([fr EXCEPT !.pos = @ + 3, !.name = src[fr.pos + 1].n,
                         !.pc = "block", !.note = ""])
    ELSE Fail(fr, "UnexpectedToken")

\* parse_block, lines 558-588, at a token that is no directive: skip it when
\* inactive, parse a declaration section, or leave the loop and take BEGIN.
BlockLoopStep(fs, fr) ==
    LET tok == Current(fs[fr.file], fr) IN
    IF ~fr.x.ev.active THEN Cont(Advance(fs[fr.file], fr))
    ELSE IF tok.k = "Decl"
    THEN Cont([fr EXCEPT !.pos = @ + 1, !.block = AddDecl(@, tok), !.note = "decl"])
    ELSE IF tok.k = "KwBegin"
    THEN Cont([fr EXCEPT !.pos = @ + 1, !.pc = "stmts", !.note = ""])
    ELSE Fail(fr, "UnexpectedToken")

\* A statement and the optional ";" after it.
TakeStatement(src, fr) ==
    [fr EXCEPT !.block.statements = Append(@, src[fr.pos].n),
               !.pos = IF fr.pos + 1 <= Len(src) /\ src[fr.pos + 1].k = "Semi"
                       THEN @ + 2 ELSE @ + 1,
               !.note = "stmt"]

\* parse_block, lines 593-603, and back in parse_program, lines 91-113: the
\* statements; at END the block is complete, what was collected before
\* PROGRAM is merged into it and the final "." is taken.
StatementStep(fs, fr) ==
    LET src == fs[fr.file]
        tok == Current(src, fr)
    IN  IF tok.k = "Stmt" THEN Cont(TakeStatement(src, fr))
        ELSE IF tok.k = "KwEnd" /\ fr.pos + 1 <= Len(src) /\ src[fr.pos + 1].k = "Dot"
        THEN Cont([fr EXCEPT !.pos = @ + 2, !.pc = "trail", !.note = "",
                             !.block = MergeCollected(@, fr.collected)])
        ELSE Fail(fr, "UnexpectedToken")

\* parse_program, lines 117-142, at a token that is no directive.
TrailingStep(fs, fr) ==
    IF Current(fs[fr.file], fr).k = "Eof"
    THEN Finish(fr, ProgramNode(fr.name, fr.collected, fr.block))
    ELSE Fail(fr, "TokensAfterEnd")

\* parse_declarations_only, lines 433-492, at a token that is no directive.
\* A failing parse_statement ends the loop without an error (line 487).
DeclarationsOnlyStep(fs, fr) ==
    LET src == fs[fr.file]
        tok == Current(src, fr)
    IN  IF ~fr.x.ev.active THEN Cont(Advance(src, fr))
        ELSE IF tok.k = "KwBegin"
        THEN Cont([fr EXCEPT !.pos = @ + 1, !.pc = "dstmts", !.note = ""])
        ELSE IF tok.k = "Decl"
        THEN Cont([fr EXCEPT !.pos = @ + 1, !.block = AddDecl(@, tok), !.note = "decl"])
        ELSE IF tok.k = "Stmt" THEN Cont(TakeStatement(src, fr))
        ELSE Cont([fr EXCEPT !.pc = "done", !.note = ""])

\* parse_declarations_only, lines 440-452: the statements after BEGIN, up to
\* END or the end of the file.
DeclarationsStatementStep(fs, fr) ==
    LET src == fs[fr.file]
        tok == Current(src, fr)
    IN  IF tok.k = "KwEnd" THEN Cont([fr EXCEPT !.pos = @ + 1, !.pc = "done", !.note = ""])
        ELSE IF tok.k = "Eof" THEN Cont([fr EXCEPT !.pc = "done", !.note = ""])
        ELSE IF tok.k = "Stmt" THEN Cont(TakeStatement(src, fr))
        ELSE Fail(fr, "UnexpectedToken")

ReceiveBlockSharingIncluded(fr, child) ==
    LET got == [fr EXCEPT !.note = "includeReturn", !.childSyms = child.x.ev.syms,
                          !.childBlock = child.block, !.hostBefore = fr.block,
                          !.included = @ \cup child.included] IN
    IF fr.pc \in {"pre", "trail"}
    THEN [got EXCEPT !.collected = Append(@, BlockNode(child.block))]
    ELSE IF fr.pc = "block"
    THEN [got EXCEPT !.block = MergeDeclarations(@, child.block)]
    ELSE [got EXCEPT !.block = MergeBlock(@, child.block)]

\* handle_include_directive returns the sub-parser's Block (line 279) to the
\* loop that called parse_directive, which merges it.
ReceiveBlock(fr, child) ==
    LET got == [fr EXCEPT !.note = "includeReturn", !.childSyms = child.x.ev.syms,
                          !.childBlock = child.block, !.hostBefore = fr.block] IN
    IF fr.pc \in {"pre", "trail"}
    THEN [got EXCEPT !.collected = Append(@, BlockNode(child.block))]
    ELSE IF fr.pc = "block"
    THEN [got EXCEPT !.block = MergeDeclarations(@, child.block)]
    ELSE [got EXCEPT !.block = MergeBlock(@, child.block)]

(***************************************************************************)
(* Part C.  resolve_include_path.  A path is its root flag and its         *)
(* components; the file system of a lookup is the set of the canonical     *)
(* paths of the files that exist.                                          *)
(***************************************************************************)
MaxPaths == 2

PathOf(root, parts) == [root |-> root, parts |-> parts]

\* Path::is_absolute
IsAbsolute(p) == p.root

\* Path::join: an absolute argument replaces the base
Join(base, p) == IF IsAbsolute(p) THEN p ELSE PathOf(base.root, base.parts \o p.parts)

\* Path::parent: None for the empty path and for the root
Parent(p) ==
    IF p.parts = <<>> THEN None
    ELSE Some(PathOf(p.root, SubSeq(p.parts, 1, Len(p.parts) - 1)))

\* the current directory of the process
Cwd == PathOf(TRUE, <<"w">>)

\* Path::exists: a relative path is looked up from the current directory,
\* and "." names the directory it stands in
Canonical(p) ==
    LET q == Join(Cwd, p) IN PathOf(TRUE, SelectSeq(q.parts, LAMBDA c : c # "."))
Exists(exist, p) == Canonical(p) \in exist

Found(p) == [ok |-> TRUE, path |-> p, err |-> ""]
NotFound == [ok |-> FALSE, path |-> PathOf(FALSE, <<>>), err |-> "Include file not found"]

\* the last step of resolve_include_path: the current directory
ResolveInCwd(exist, filename) ==
    IF Exists(exist, filename) THEN Found(filename) ELSE NotFound

\* the loop over include_paths, from the i-th path on
RECURSIVE ResolveInIncludePaths(_, _, _, _)
ResolveInIncludePaths(exist, include_paths, filename, i) ==
    IF i > Len(include_paths) THEN ResolveInCwd(exist, filename)
    ELSE IF Exists(exist, Join(include_paths[i], filename))
    THEN Found(Join(include_paths[i], filename))
    ELSE ResolveInIncludePaths(exist, include_paths, filename, i + 1)

ResolveSkippingCurrentDirectory(exist, current, include_paths, filename) ==
    ResolveInIncludePaths(exist, include_paths, filename, 1)

\* the directory of the current file before the include paths
ResolveInCurrentDirectory(exist, current, include_paths, filename) ==
    IF /\ current.some
       /\ Parent(current.v).some
       /\ Exists(exist, Join(Parent(current.v).v, filename))
    THEN Found(Join(Parent(current.v).v, filename))
    ELSE ResolveInIncludePaths(exist, include_paths, filename, 1)

\* resolve_include_path
ResolveIncludePath(exist, current, include_paths, filename) ==
    IF IsAbsolute(filename) /\ Exists(exist, filename) THEN Found(filename)
    ELSE ResolveInCurrentDirectory(exist, current, include_paths, filename)

\* a parser that has resolved nothing yet
NoResolve == [called |-> FALSE, filename |-> PathOf(FALSE, <<>>), paths |-> <<>>, out |-> NotFound]
NewLookup(exist, current) ==
    [exist |-> exist, current |-> current, include_paths |-> <<>>, last |-> NoResolve]

(***************************************************************************)
(* Part D.  The expression parser.  An expression is a row of tokens:      *)
(* integer literals with binary operators between them.                    *)
(***************************************************************************)
MaxOps == 3

TInteger(v) == [k |-> "IntegerLiteral", value |-> v]
TOper(k) == [k |-> k, value |-> 0]

\* parse_binary_operator: the ast::BinaryOp of a token kind
BinaryOpOf ==
    [Plus |-> "Add", Minus |-> "Subtract", Star |-> "Multiply", Slash |-> "Divide",
     KwDiv |-> "Div", KwMod |-> "Mod", Equal |-> "Equal", NotEqual |-> "NotEqual",
     Less |-> "Less", LessEqual |-> "LessEqual", Greater |-> "Greater",
     GreaterEqual |-> "GreaterEqual", KwAnd |-> "And", KwOr |-> "Or"]
ParseBinaryOperator(tok) ==
    IF tok.k \in DOMAIN BinaryOpOf THEN [some |-> TRUE, v |-> BinaryOpOf[tok.k]]
    ELSE [some |-> FALSE, v |-> ""]

GetPrecedenceAndBelowOr(op) ==
    CASE op = "Or" -> 2
      [] op = "And" -> 1
      [] op \in {"Equal", "NotEqual", "Less", "LessEqual", "Greater", "GreaterEqual"} -> 3
      [] op \in {"Add", "Subtract"} -> 4
      [] OTHER -> 5

\* get_precedence
GetPrecedence(op) ==
    CASE op = "Or" -> 1
      [] op = "And" -> 2
      [] op \in {"Equal", "NotEqual", "Less", "LessEqual", "Greater", "GreaterEqual"} -> 3
      [] op \in {"Add", "Subtract"} -> 4
      [] op \in {"Multiply", "Divide", "Div", "Mod"} -> 5

\* ast::LiteralExpr, ast::BinaryExpr
LiteralExpr(v) == [node |-> "LiteralExpr", value |-> v]
BinaryExpr(op, left, right) ==
    [node |-> "BinaryExpr", op |-> op, left |-> left, right |-> right]

Parsed(n, pos) == [ok |-> TRUE, node |-> n, pos |-> pos]
ExpectedExpression(pos) == [ok |-> FALSE, node |-> LiteralExpr(0), pos |-> pos]

\* parse_prefix, for the tokens of these expressions
ParsePrefix(toks, pos) ==
    IF Current(toks, [pos |-> pos]).k = "IntegerLiteral"
    THEN Parsed(LiteralExpr(toks[pos].value), pos + 1)
    ELSE ExpectedExpression(pos)

\* parse_expression_precedence: the left operand, then the loop over the
\* binary operators that follow it
RECURSIVE ParseExpressionPrecedence(_, _, _)
RECURSIVE ParseInfix(_, _, _, _, _)
InfixRight(toks, left, op, right, min_precedence) ==
    IF ~right.ok THEN right
    ELSE ParseInfix(toks, BinaryExpr(op, left, right.node), right.pos,
                    ParseBinaryOperator(Current(toks, [pos |-> right.pos])), min_precedence)
ParseInfix(toks, left, pos, op, min_precedence) ==
    IF ~op.some \/ GetPrecedence(op.v) < min_precedence THEN Parsed(left, pos)
    ELSE InfixRight(toks, left, op.v,
                    ParseExpressionPrecedence(toks, pos + 1, GetPrecedence(op.v) + 1),
                    min_precedence)
InfixAfter(toks, left, min_precedence) ==
    IF ~left.ok THEN left
    ELSE ParseInfix(toks, left.node, left.pos,
                    ParseBinaryOperator(Current(toks, [pos |-> left.pos])), min_precedence)
ParseExpressionPrecedence(toks, pos, min_precedence) ==
    InfixAfter(toks, ParsePrefix(toks, pos), min_precedence)

\* parse_expression
ParseExpression(toks) == ParseExpressionPrecedence(toks, 1, 0)

NotParsed(toks) == [toks |-> toks, called |-> FALSE, out |-> ExpectedExpression(0)]

(***************************************************************************)
(* Part E.  Spans (tokens/src/lib.rs).                                     *)
(***************************************************************************)
MaxPos == 5

\* Span::new
SpanNew(start, end, line, column) ==
    [start |-> start, end |-> end, line |-> line, column |-> column]

Min(a, b) == IF a <= b THEN a ELSE b
Max(a, b) == IF a >= b THEN a ELSE b

\* Span::merge
Merge(self, other) ==
    SpanNew(Min(self.start, other.start), Max(self.end, other.end), self.line, self.column)

NotMerged(a, b) == [a |-> a, b |-> b, called |-> FALSE, out |-> a]

(***************************************************************************)
(* Part F.  The postfix chain of an identifier operand (expressions.rs).   *)
(***************************************************************************)
MaxPostfix == 4

TIdentifier(name) == [k |-> "Identifier", value |-> name]

\* ast::IdentExpr, IndexExpr, FieldExpr, DerefExpr
IdentExpr(name) == [node |-> "IdentExpr", name |-> name]
IndexExpr(array, index) == [node |-> "IndexExpr", array |-> array, index |-> index]
FieldExpr(record, field) == [node |-> "FieldExpr", record |-> record, field |-> field]
DerefExpr(pointer) == [node |-> "DerefExpr", pointer |-> pointer]

ParsePostfixDerefFirst(toks, expr, pos) ==
    LET carets == {i \in pos..Len(toks) : toks[i].k = "Caret"} IN
    IF carets = {} THEN Parsed(expr, pos) ELSE Parsed(DerefExpr(expr), Len(toks) + 1)

\* parse_postfix: the loop, one turn for each "[", "." or "^"
RECURSIVE ParsePostfix(_, _, _)
PostfixIndex(toks, expr, index) ==
    IF ~index.ok THEN index
    ELSE IF Current(toks, [pos |-> index.pos]).k # "RightBracket"
    THEN ExpectedExpression(index.pos)
    ELSE ParsePostfix(toks, IndexExpr(expr, index.node), index.pos + 1)
PostfixField(toks, expr, pos) ==
    IF Current(toks, [pos |-> pos]).k # "Identifier" THEN ExpectedExpression(pos)
    ELSE ParsePostfix(toks, FieldExpr(expr, toks[pos].value), pos + 1)
ParsePostfix(toks, expr, pos) ==
    CASE Current(toks, [pos |-> pos]).k = "LeftBracket" ->
            PostfixIndex(toks, expr, ParseExpressionPrecedence(toks, pos + 1, 0))
      [] Current(toks, [pos |-> pos]).k = "Dot" -> PostfixField(toks, expr, pos + 1)
      [] Current(toks, [pos |-> pos]).k = "Caret" -> ParsePostfix(toks, DerefExpr(expr), pos + 1)
      [] OTHER -> Parsed(expr, pos)

\* parse_prefix at an identifier that no "(" follows
ParseIdentifierOperand(toks) == ParsePostfix(toks, IdentExpr(toks[1].value), 2)

NotParsedChain(chain, toks) ==
    [chain |-> chain, toks |-> toks, called |-> FALSE, out |-> ExpectedExpression(0)]

(***************************************************************************)
(* Part G.  Routine declarations (declarations.rs): parse_procedure_decl_- *)
(* impl, parse_function_decl_impl, parse_operator_decl.  The i-th token of *)
(* a declaration covers byte i - 1.  In a body, a section keyword stands   *)
(* for the whole section it opens and Stmt for one statement.              *)
(***************************************************************************)
TokenSpan(i) == SpanNew(i - 1, i, 1, i)
KindAt(toks, pos) == Current(toks, [pos |-> pos]).k

\* parse_block, lines 564-581: the section each keyword fills
SectionOf ==
    [KwLabel |-> "label", KwConst |-> "const", KwResourcestring |-> "const",
     KwType |-> "type", KwVar |-> "var", KwThreadvar |-> "threadvar",
     KwProcedure |-> "proc", KwFunction |-> "func", KwOperator |-> "operator"]

\* what parse_block returns: the block and its span, or the error
BlockParsed(block, first, last) ==
    [ok |-> TRUE, block |-> block, span |-> Merge(TokenSpan(first), TokenSpan(last)),
     pos |-> last + 1]
BlockFailed(pos) ==
    [ok |-> FALSE, block |-> EmptyBlock, span |-> TokenSpan(pos), pos |-> pos]

\* parse_block without directives: the declarations, BEGIN, the statements
\* with their optional ";", END
RECURSIVE BlockStatements(_, _, _, _)
BlockStatements(toks, first, pos, block) ==
    IF KindAt(toks, pos) = "KwEnd" THEN BlockParsed(block, first, pos)
    ELSE IF KindAt(toks, pos) # "Stmt" THEN BlockFailed(pos)
    ELSE BlockStatements(toks, first,
                         IF KindAt(toks, pos + 1) = "Semicolon" THEN pos + 2 ELSE pos + 1,
                         [block EXCEPT !.statements = Append(@, toks[pos].value)])
RECURSIVE BlockDeclarations(_, _, _, _)
BlockDeclarations(toks, first, pos, block) ==
    IF KindAt(toks, pos) \in DOMAIN SectionOf
    THEN BlockDeclarations(toks, first, pos + 1,
            AddDecl(block, [sec |-> SectionOf[KindAt(toks, pos)], n |-> toks[pos].value]))
    ELSE IF KindAt(toks, pos) = "KwBegin" THEN BlockStatements(toks, first, pos + 1, block)
    ELSE BlockFailed(pos)
ParseBlock(toks, pos) == BlockDeclarations(toks, pos, pos, EmptyBlock)

\* parse_params and parse_param for "( x : T )": the spans of the parameters
NoParams(pos) == [ok |-> TRUE, params |-> <<>>, pos |-> pos]
ParseParams(toks, pos) ==
    IF KindAt(toks, pos) # "LeftParen" THEN NoParams(pos)
    ELSE IF /\ KindAt(toks, pos + 1) = "Identifier" /\ KindAt(toks, pos + 2) = "Colon"
            /\ KindAt(toks, pos + 3) = "Identifier" /\ KindAt(toks, pos + 4) = "RightParen"
    THEN [ok |-> TRUE, params |-> <<Merge(TokenSpan(pos + 1), TokenSpan(pos + 3))>>,
          pos |-> pos + 5]
    ELSE [ok |-> FALSE, params |-> <<>>, pos |-> pos]

\* ": type" of a function or an operator: the span of the type
ParseReturnType(toks, pos) ==
    IF KindAt(toks, pos) = "Colon" /\ KindAt(toks, pos + 1) = "Identifier"
    THEN [ok |-> TRUE, span |-> TokenSpan(pos + 1), pos |-> pos + 2]
    ELSE [ok |-> FALSE, span |-> TokenSpan(pos), pos |-> pos]

\* ast::ProcDecl, FuncDecl, OperatorDecl: children are the parameters, the
\* return type (children) and the block
RoutineDecl(node, children, blk, flags, span) ==
    [ok |-> TRUE, node |-> node, children |-> children, block |-> blk.block,
     block_span |-> blk.span, is_forward |-> flags.is_forward,
     is_external |-> flags.is_external, external_name |-> flags.external_name,
     parsed_block |-> flags.parsed_block, span |-> span]
RoutineFailed ==
    [ok |-> FALSE, node |-> "", children |-> <<>>, block |-> EmptyBlock,
     block_span |-> TokenSpan(1), is_forward |-> FALSE, is_external |-> FALSE,
     external_name |-> None, parsed_block |-> FALSE, span |-> TokenSpan(1)]

Flags(is_forward, is_external, external_name, parsed_block) ==
    [is_forward |-> is_forward, is_external |-> is_external,
     external_name |-> external_name, parsed_block |-> parsed_block]

\* the empty block of a forward or external declaration
EmptyBlockAt(start_span) == [ok |-> TRUE, block |-> EmptyBlock, span |-> start_span, pos |-> 0]

\* consume(Semicolon) after the tail of a declaration
Consumed(toks, pos, flags, blk) ==
    [ok |-> KindAt(toks, pos) = "Semicolon", flags |-> flags, blk |-> blk]

\* a tail that leaves the external name on a forward declaration
TailForwardKeepingName(toks, pos, start_span) ==
    Consumed(toks, pos + 1, Flags(TRUE, FALSE, Some("FORWARD"), FALSE),
             EmptyBlockAt(start_span))

\* lines 1074-1077: FORWARD ";"
TailForward(toks, pos, start_span) ==
    Consumed(toks, pos + 1, Flags(TRUE, FALSE, None, FALSE), EmptyBlockAt(start_span))

\* lines 1078-1102: EXTERNAL, the optional name as a string or an identifier, ";"
TailExternal(toks, pos, start_span) ==
    IF KindAt(toks, pos + 1) \in {"StringLiteral", "Identifier"}
    THEN Consumed(toks, pos + 2, Flags(FALSE, TRUE, Some(toks[pos + 1].value), FALSE),
                  EmptyBlockAt(start_span))
    ELSE Consumed(toks, pos + 1, Flags(FALSE, TRUE, None, FALSE), EmptyBlockAt(start_span))

\* lines 1103-1119: parse_block, ";", is_forward and is_external false
TailBlockOf(toks, blk) ==
    IF blk.ok THEN Consumed(toks, blk.pos, Flags(FALSE, FALSE, None, TRUE), blk)
    ELSE [ok |-> FALSE, flags |-> Flags(FALSE, FALSE, None, TRUE), blk |-> blk]
TailBlock(toks, pos) == TailBlockOf(toks, ParseBlock(toks, pos))

\* lines 1145-1147 and 1165-1167: a forward declaration without FORWARD
TailImplicitForward(start_span) ==
    [ok |-> TRUE, flags |-> Flags(TRUE, FALSE, None, FALSE), blk |-> EmptyBlockAt(start_span)]

DeclarationKeywords ==
    {"KwLabel", "KwConst", "KwResourcestring", "KwType", "KwVar", "KwThreadvar",
     "KwOperator"}

\* what follows the ";" of the header of a procedure or a function, lines
\* 1073-1168 and 1247-1345
RoutineTail(toks, pos, start_span, in_class_context) ==
    IF KindAt(toks, pos) = "KwForward" THEN TailForward(toks, pos, start_span)
    ELSE IF KindAt(toks, pos) = "KwExternal" THEN TailExternal(toks, pos, start_span)
    ELSE IF KindAt(toks, pos) = "KwBegin" THEN TailBlock(toks, pos)
    ELSE IF KindAt(toks, pos) \in DeclarationKeywords THEN TailBlock(toks, pos)
    ELSE IF in_class_context THEN TailImplicitForward(start_span)
    ELSE IF KindAt(toks, pos) \in {"KwProcedure", "KwFunction"} THEN TailBlock(toks, pos)
    ELSE TailImplicitForward(start_span)

\* what follows the ";" of the header of an operator, lines 1525-1572
OperatorTail(toks, pos, start_span) ==
    IF KindAt(toks, pos) = "KwForward" THEN TailForward(toks, pos, start_span)
    ELSE IF KindAt(toks, pos) = "KwExternal" THEN TailExternal(toks, pos, start_span)
    ELSE TailBlock(toks, pos)

\* the span of the declaration: that of a forward or external one is given
\* by the caller, that of one with a body runs to the end of the block
DeclOf(node, children, tail, start_span, forward_span) ==
    IF ~tail.ok THEN RoutineFailed
    ELSE RoutineDecl(node, children, tail.blk, tail.flags,
                     IF tail.flags.parsed_block THEN Merge(start_span, tail.blk.span)
                     ELSE forward_span)

\* parse_procedure_decl_impl after the name: parameters, ";", the tail;
\* line 1185: a forward or external ProcDecl has the span start_span
ProcedureAfterParams(toks, ps, in_class_context) ==
    IF ~ps.ok \/ KindAt(toks, ps.pos) # "Semicolon" THEN RoutineFailed
    ELSE DeclOf("ProcDecl", ps.params,
                RoutineTail(toks, ps.pos + 1, TokenSpan(1), in_class_context),
                TokenSpan(1), TokenSpan(1))
ParseProcedureDeclImpl(toks, in_class_context) ==
    IF KindAt(toks, 1) # "KwProcedure" \/ KindAt(toks, 2) # "Identifier" THEN RoutineFailed
    ELSE ProcedureAfterParams(toks, ParseParams(toks, 3), in_class_context)

\* parse_function_decl_impl: parameters, ":" and the return type, ";", the
\* tail; line 1362: a forward or external FuncDecl runs to the return type
FunctionAfterType(toks, ps, rt, in_class_context) ==
    IF ~rt.ok \/ KindAt(toks, rt.pos) # "Semicolon" THEN RoutineFailed
    ELSE DeclOf("FuncDecl", Append(ps.params, rt.span),
                RoutineTail(toks, rt.pos + 1, TokenSpan(1), in_class_context),
                TokenSpan(1), Merge(TokenSpan(1), rt.span))
FunctionAfterParams(toks, ps, in_class_context) ==
    IF ~ps.ok THEN RoutineFailed
    ELSE FunctionAfterType(toks, ps, ParseReturnType(toks, ps.pos), in_class_context)
ParseFunctionDeclImpl(toks, in_class_context) ==
    IF KindAt(toks, 1) # "KwFunction" \/ KindAt(toks, 2) # "Identifier" THEN RoutineFailed
    ELSE FunctionAfterParams(toks, ParseParams(toks, 3), in_class_context)

\* parse_operator_decl: the operator symbol in the place of the name
OperatorAfterType(toks, ps, rt) ==
    IF ~rt.ok \/ KindAt(toks, rt.pos) # "Semicolon" THEN RoutineFailed
    ELSE DeclOf("OperatorDecl", Append(ps.params, rt.span),
                OperatorTail(toks, rt.pos + 1, TokenSpan(1)),
                TokenSpan(1), Merge(TokenSpan(1), rt.span))
OperatorAfterParams(toks, ps) ==
    IF ~ps.ok THEN RoutineFailed
    ELSE OperatorAfterType(toks, ps, ParseReturnType(toks, ps.pos))
ParseOperatorDecl(toks) ==
    IF KindAt(toks, 1) # "KwOperator" \/ KindAt(toks, 2) # "Plus" THEN RoutineFailed
    ELSE OperatorAfterParams(toks, ParseParams(toks, 3))

\* parse_procedure_decl, parse_function_decl and their class variants, and
\* parse_operator_decl, by the keyword the declaration starts with
ParseRoutine(toks, in_class_context) ==
    IF KindAt(toks, 1) = "KwProcedure" THEN ParseProcedureDeclImpl(toks, in_class_context)
    ELSE IF KindAt(toks, 1) = "KwFunction" THEN ParseFunctionDeclImpl(toks, in_class_context)
    ELSE ParseOperatorDecl(toks)

NoRoutine ==
    [toks |-> <<>>, in_class_context |-> FALSE, decl |-> RoutineFailed, called |-> FALSE]

(***************************************************************************)
(* Part H.  The driver (driver/src/main.rs): main dispatches on args[1],   *)
(* calls one operation of Compiler and exits.  args[0], the program name,  *)
(* is the first element of args; the result of the operation is Ok or Err. *)
(***************************************************************************)
ExitFailure == 1
ExitSuccess == 0

\* lines 31, 50, 68, 84, 100: the operation of Compiler each command calls
OperationOf ==
    [build |-> "compile_file", compile |-> "compile_file", check |-> "check_file",
     emit_ast |-> "emit_ast", emit_ir |-> "emit_ir", asm |-> "emit_assembly"]
CommandKey(command) ==
    CASE command = "emit-ast" -> "emit_ast"
      [] command = "emit-ir" -> "emit_ir"
      [] OTHER -> command
NeedsInput(command) == CommandKey(command) \in DOMAIN OperationOf
IsHelp(command) == command \in {"help", "--help", "-h"}

\* process::exit(code), or the return from main (status 0)
Exited(d, code) == [d EXCEPT !.pc = "exited", !.code = code]
Calling(d, op) ==
    [d EXCEPT !.pc = "compiling", !.op = op, !.input_file = d.args[3],
              !.output_file = IF Len(d.args) >= 4 THEN Some(d.args[4]) ELSE None]

\* main up to the call of the compiler: args[k] of the code is args[k + 1]
Dispatch(d) ==
    IF Len(d.args) < 2 THEN Exited(d, ExitFailure)
    ELSE IF NeedsInput(d.args[2])
    THEN IF Len(d.args) < 3 THEN Exited(d, ExitFailure)
         ELSE Calling(d, OperationOf[CommandKey(d.args[2])])
    ELSE IF IsHelp(d.args[2]) THEN Exited(d, ExitSuccess)
    ELSE Exited(d, ExitFailure)

\* an Err of the operation that is taken for success
OperationExitIgnoringErr(res) == ExitSuccess

\* the match on the result of the operation: Ok falls out of main, Err exits
OperationExit(res) == IF res = "Ok" THEN ExitSuccess ELSE ExitFailure

NoDriver ==
    [args |-> <<"spc">>, pc |-> "main", op |-> "", input_file |-> "",
     output_file |-> None, res |-> "", code |-> ExitSuccess]

(***************************************************************************)
(* State.                                                                  *)
(*   x           the evaluator driven directly, one evaluate call per step *)
(*   files       the file system: the tokens of each source file           *)
(*   predefined  the predefined_symbols handed to the driver               *)
(*   frames      the parsers at work: the parser of the main file and, on  *)
(*               top of it, the sub-parsers of the includes being read     *)
(*   result      "running", then "Ok" or "Err": what parse returns         *)
(*   error       the kind of the ParserError returned                      *)
(*   ast         the Program returned                                      *)
(*   lookup      a parser resolving include names: the files that exist,   *)
(*               its filename, its include_paths, and what the last        *)
(*               resolve_include_path was called with and returned         *)
(*   pratt       a parser on an expression: its tokens, and what           *)
(*               parse_expression returned                                 *)
(*   merged      two spans, and what merge returned for them               *)
(*   postfix     an identifier with its postfix chain, and its parse       *)
(*   routine     a routine declaration, its context, and its parse         *)
(*   driver      the driver's arguments, its position and its exit status  *)
(***************************************************************************)
VARIABLES x, files, predefined, frames, result, error, ast, lookup, pratt, merged, postfix, routine, driver

vars == <<x, files, predefined, frames, result, error, ast, lookup, pratt, merged, postfix, routine, driver>>
parserVars == <<files, predefined, frames, result, error, ast, lookup, pratt, merged, postfix, routine, driver>>
sourceVars == <<x, files, predefined, frames, result, error, ast>>

\* Expressions the evaluator specification draws IF and ELSEIF from.
\* NOT A OR B, A OR NOT B, A AND B OR B
NotAOrB == <<WNot, WSym("A"), WOr, WSym("B")>>
AOrNotB == <<WSym("A"), WOr, WNot, WSym("B")>>
AAndBOrB == <<WSym("A"), WAnd, WSym("B"), WOr, WSym("B")>>
\* the spellings of the Defined function
Spellings == {"Defined", "DEFINED", "defined"}
DefinedExprs ==
    {<<WDef(sp, "B")>> : sp \in Spellings}
        \cup {<<WDef("defined", "A"), WAnd, WDef("DEFINED", "B")>>,
              <<WDef("DEFINED", "A"), WOr, WDef("defined", "B")>>}

EvalExprs ==
    {<<WLit(TRUE)>>, <<WLit(FALSE)>>, <<WSym("A")>>,
     <<WNot, WSym("A")>>, <<WNot, WDef("Defined", "B")>>,
     NotAOrB, AOrNotB, AAndBOrB} \cup DefinedExprs

OnlyMain(toks) == [main |-> toks, a |-> NoFile, b |-> NoFile]

InitEval ==
    /\ driver = NoDriver
    /\ routine = NoRoutine
    /\ postfix = NotParsedChain(<<>>, <<>>)
    /\ merged = NotMerged(SpanNew(0, 0, 1, 1), SpanNew(0, 0, 1, 1))
    /\ x \in {NewTracked(s) : s \in SUBSET Symbols}
    /\ files = OnlyMain(<<>>)
    /\ predefined = {}
    /\ frames = <<>>
    /\ result = "running"
    /\ error = ""
    /\ ast = NoAst
    /\ lookup = NewLookup({}, None)
    /\ pratt = NotParsed(<<>>)

EvalIfDef ==
    \E s \in Symbols :
        Len(x.ev.stack) < MaxDepth /\ x' = Step(x, DIfDef(s)) /\ UNCHANGED parserVars
EvalIfNDef ==
    \E s \in Symbols :
        Len(x.ev.stack) < MaxDepth /\ x' = Step(x, DIfNDef(s)) /\ UNCHANGED parserVars
EvalIf ==
    \E e \in EvalExprs :
        Len(x.ev.stack) < MaxDepth /\ x' = Step(x, DIf(e)) /\ UNCHANGED parserVars
EvalElseIf == \E e \in EvalExprs : x' = Step(x, DElseIf(e)) /\ UNCHANGED parserVars
EvalElse == x' = Step(x, DElse) /\ UNCHANGED parserVars
EvalEndIf == x' = Step(x, DEndIf) /\ UNCHANGED parserVars
EvalDefine == \E s \in Symbols : x' = Step(x, DDefine(s)) /\ UNCHANGED parserVars
EvalUndef == \E s \in Symbols : x' = Step(x, DUndef(s)) /\ UNCHANGED parserVars
EvalInclude == x' = Step(x, DInclude("a")) /\ UNCHANGED parserVars
EvalOther == x' = Step(x, DOther) /\ UNCHANGED parserVars

NextEval ==
    \/ EvalIfDef
    \/ EvalIfNDef
    \/ EvalIf
    \/ EvalElseIf
    \/ EvalElse
    \/ EvalEndIf
    \/ EvalDefine
    \/ EvalUndef
    \/ EvalInclude
    \/ EvalOther

SpecEval == InitEval /\ [][NextEval]_vars

(***************************************************************************)
(* The sources the parser specification starts from.                       *)
(***************************************************************************)
MaxBody == 3
MaxBefore == 2
MaxAfter == 1

Header == <<TProgram, TIdent("P"), TSemi>>
Footer == <<TBegin, TStmt("s"), TEnd, TDot>>

SeqsUpTo(S, n) == UNION {[1..k -> S] : k \in 0..n}

BodyTokens ==
    {TDir(DIfDef("A")), TDir(DIfNDef("A")), TDir(DIf(<<WDef("Defined", "B")>>)),
     TDir(DElseIf(<<WLit(TRUE)>>)), TDir(DElse), TDir(DEndIf),
     TDir(DDefine("B")), TDir(DUndef("A")), TDir(DOther), TDecl("const", "K")}

OuterTokens ==
    {TDir(DIfDef("A")), TDir(DIfNDef("A")), TDir(DElse), TDir(DEndIf),
     TDir(DDefine("B")), TDir(DOther), TDecl("var", "V")}

\* program P; <body> begin s end.
BodySources == {OnlyMain(Header \o body \o Footer) : body \in SeqsUpTo(BodyTokens, MaxBody)}

\* <before> program P; begin s end. <after>
OuterSources ==
    {OnlyMain(before \o Header \o Footer \o after) :
        before \in SeqsUpTo(OuterTokens, MaxBefore), after \in SeqsUpTo(OuterTokens, MaxAfter)}

\* {$IF c1} const KA {$ELSEIF c2} const KB {$ELSE} const KC {$ENDIF}
ChainConds == {<<WDef("Defined", "A")>>, <<WDef("Defined", "B")>>, <<WLit(TRUE)>>}
Chain(c1, c2) ==
    <<TDir(DIf(c1)), TDecl("const", "KA"), TDir(DElseIf(c2)), TDecl("const", "KB"),
      TDir(DElse), TDecl("const", "KC"), TDir(DEndIf)>>
ChainSources ==
    {OnlyMain(Header \o Chain(c1, c2) \o Footer) : c1 \in ChainConds, c2 \in ChainConds}

\* A conditional inside a conditional.
NestOpeners == {TDir(DIfDef("A")), TDir(DIfNDef("A")), TDir(DIf(<<WLit(TRUE)>>))}
NestItems == {TDir(DDefine("B")), TDir(DUndef("B")), TDecl("const", "K"), TDir(DElse)}
NestedSources ==
    {OnlyMain(Header \o <<o1, o2, i1, TDir(DEndIf), i2, TDir(DEndIf)>> \o Footer) :
        o1 \in NestOpeners, o2 \in NestOpeners, i1 \in NestItems, i2 \in NestItems}

\* Sources with includes.  GuardFile wraps its content in a guard on A.
Inc(f) == TDir(DInclude(f))
GuardFile ==
    <<TDir(DIfNDef("A")), TDir(DDefine("A")), TDecl("const", "KG"), TDir(DEndIf)>>
AfterInclude ==
    {<<>>, <<Inc("a")>>, <<Inc("b")>>,
     <<TDir(DIfDef("B")), TDecl("const", "KB"), TDir(DEndIf)>>,
     <<TDir(DIfDef("A")), TDecl("const", "KA"), TDir(DEndIf)>>}
MainWithInclude ==
    {Header \o <<Inc("a")>> \o t \o Footer : t \in AfterInclude}
        \cup {<<Inc("a")>> \o t \o Header \o Footer : t \in AfterInclude}
        \cup {Header \o Footer \o <<Inc("a")>>}
        \cup {<<Inc("a")>> \o Header \o <<TDecl("const", "K")>> \o Footer}
FileA ==
    {<<TDecl("const", "KA")>>, <<TDir(DDefine("B"))>>, <<TDir(DUndef("A"))>>,
     GuardFile, <<Inc("b")>>, <<Inc("a")>>, <<Inc("main")>>,
     <<TDecl("type", "T"), Inc("b")>>, <<TBegin, TStmt("t"), TEnd, Inc("b")>>,
     <<TBegin, TEnd, Inc("main")>>, <<TDir(DIfDef("A"))>>, <<TDir(DEndIf)>>, NoFile,
     <<TDot, TDecl("var", "VA")>>}
FileB ==
    {<<TDecl("var", "VB")>>, <<Inc("a")>>, <<Inc("main")>>, <<TDir(DDefine("A"))>>,
     <<TStmt("t"), TSemi, TDir(DIfDef("A"))>>}
IncludeSources ==
    {[main |-> m, a |-> fa, b |-> fb] : m \in MainWithInclude, fa \in FileA, fb \in FileB}

\* {$IFDEF A} program P1; begin end. {$ELSE} program P2; begin end. {$ENDIF},
\* alone or after {$DEFINE A} or {$DEFINE B}.
ProgramNamed(n) == <<TProgram, TIdent(n), TSemi, TBegin, TEnd, TDot>>
TwoPrograms(before) ==
    before \o <<TDir(DIfDef("A"))>> \o ProgramNamed("P1") \o <<TDir(DElse)>>
           \o ProgramNamed("P2") \o <<TDir(DEndIf)>>
TwoProgramsBefore == {<<>>, <<TDir(DDefine("A"))>>, <<TDir(DDefine("B"))>>}
TwoProgramSources == {OnlyMain(TwoPrograms(before)) : before \in TwoProgramsBefore}

\* program P; <before> {$IFDEF A} <inner> {$INCLUDE a} {$ENDIF} begin s end.
\* where a.pas is missing, or declares a constant, or includes main again.
InactiveInner ==
    {<<>>, <<TDir(DIf(<<WLit(TRUE)>>)), TDir(DEndIf)>>, <<TDir(DIfDef("B")), TDir(DEndIf)>>}
InactiveInclude(before, inner) ==
    Header \o before \o <<TDir(DIfDef("A"))>> \o inner \o <<Inc("a"), TDir(DEndIf)>> \o Footer
InactiveIncludeSources ==
    {[main |-> InactiveInclude(before, inner), a |-> fa, b |-> NoFile] :
        before \in {<<>>, <<Inc("a")>>}, inner \in InactiveInner,
        fa \in {NoFile, <<TDecl("const", "KA")>>, <<Inc("main")>>}}

\* main includes a and b, and each of them includes c.
Diamond ==
    [main |-> Header \o <<Inc("a"), Inc("b")>> \o Footer,
     a |-> <<Inc("c")>>, b |-> <<Inc("c")>>, c |-> <<TDecl("const", "KC")>>]

Sources ==
    BodySources \cup OuterSources \cup ChainSources \cup NestedSources
        \cup IncludeSources \cup TwoProgramSources \cup InactiveIncludeSources
        \cup {Diamond}

\* Parser::new_with_file_and_symbols for the main file, before parse.
Init ==
    /\ driver = NoDriver
    /\ routine = NoRoutine
    /\ postfix = NotParsedChain(<<>>, <<>>)
    /\ merged = NotMerged(SpanNew(0, 0, 1, 1), SpanNew(0, 0, 1, 1))
    /\ files \in Sources
    /\ predefined \in SUBSET Symbols
    /\ frames = <<NewParser("main", predefined, {}, "pre")>>
    /\ result = "running"
    /\ error = ""
    /\ ast = NoAst
    /\ x = NewTracked({})
    /\ lookup = NewLookup({}, None)
    /\ pratt = NotParsed(<<>>)

(***************************************************************************)
(* The steps of the parse.  The parser at work is the last of frames.      *)
(***************************************************************************)
Top == frames[Len(frames)]
Token == Current(files[Top.file], Top)
Running == result = "running" /\ frames # <<>>

Apply(o) ==
    /\ frames' = CASE o.t = "call" -> Append([frames EXCEPT ![Len(frames)] = o.fr], o.child)
                   [] o.t = "cont" -> [frames EXCEPT ![Len(frames)] = o.fr]
                   [] OTHER -> frames
    /\ result' = CASE o.t = "fail" -> "Err" [] o.t = "ok" -> "Ok" [] OTHER -> result
    /\ error' = o.err
    /\ ast' = o.ast
    /\ UNCHANGED <<x, files, predefined, lookup, pratt, merged, postfix, routine, driver>>

ParseDirective ==
    /\ Running
    /\ Top.pc \in {"pre", "block", "trail", "decls"}
    /\ Token.k = "Directive"
    /\ Apply(ParseDirectiveStep(files, Top))

SkipUntilConditionalEnd ==
    /\ Running
    /\ Top.pc = "skip"
    /\ Apply(SkipStep(files, Top))

ParseProgramLoop ==
    /\ Running
    /\ Top.pc = "pre"
    /\ Token.k # "Directive"
    /\ ~(Top.x.ev.active /\ Token.k = "KwProgram")
    /\ Apply(ProgramLoopStep(files, Top))

ParseProgramHeader ==
    /\ Running
    /\ Top.pc = "pre"
    /\ Top.x.ev.active
    /\ Token.k = "KwProgram"
    /\ Apply(ProgramHeader(files, Top))

ParseBlockLoop ==
    /\ Running
    /\ Top.pc = "block"
    /\ Token.k # "Directive"
    /\ Apply(BlockLoopStep(files, Top))

ParseBlockStatements ==
    /\ Running
    /\ Top.pc = "stmts"
    /\ Apply(StatementStep(files, Top))

ParseProgramTrailing ==
    /\ Running
    /\ Top.pc = "trail"
    /\ Token.k # "Directive"
    /\ Apply(TrailingStep(files, Top))

ParseDeclarationsOnly ==
    /\ Running
    /\ Top.pc = "decls"
    /\ Token.k # "Directive"
    /\ Apply(DeclarationsOnlyStep(files, Top))

ParseDeclarationsStatements ==
    /\ Running
    /\ Top.pc = "dstmts"
    /\ Apply(DeclarationsStatementStep(files, Top))

IncludeReturn ==
    /\ Running
    /\ Len(frames) > 1
    /\ Top.pc = "done"
    /\ frames' = [SubSeq(frames, 1, Len(frames) - 1)
                    EXCEPT ![Len(frames) - 1] = ReceiveBlock(@, Top)]
    /\ UNCHANGED <<x, files, predefined, result, error, ast, lookup, pratt, merged, postfix, routine, driver>>

Next ==
    \/ ParseDirective
    \/ SkipUntilConditionalEnd
    \/ ParseProgramLoop
    \/ ParseProgramHeader
    \/ ParseBlockLoop
    \/ ParseBlockStatements
    \/ ParseProgramTrailing
    \/ ParseDeclarationsOnly
    \/ ParseDeclarationsStatements
    \/ IncludeReturn

Spec == Init /\ [][Next]_vars

(***************************************************************************)
(* Include lookups: a parser with any filename, over any set of existing   *)
(* files, has include paths registered and resolves include names.         *)
(***************************************************************************)
LookupNames == {PathOf(FALSE, <<"a.inc">>), PathOf(TRUE, <<"abs", "a.inc">>)}
LookupDirs == {PathOf(FALSE, <<"inc">>), PathOf(TRUE, <<"lib">>), PathOf(FALSE, <<".">>)}
LookupCurrents ==
    {None, Some(PathOf(FALSE, <<"main.pas">>)), Some(PathOf(FALSE, <<"src", "main.pas">>)),
     Some(PathOf(TRUE, <<"p", "main.pas">>))}
LookupFiles ==
    {PathOf(TRUE, <<"w", "a.inc">>), PathOf(TRUE, <<"w", "src", "a.inc">>),
     PathOf(TRUE, <<"w", "inc", "a.inc">>), PathOf(TRUE, <<"lib", "a.inc">>),
     PathOf(TRUE, <<"p", "a.inc">>), PathOf(TRUE, <<"abs", "a.inc">>)}

InitResolve ==
    /\ driver = NoDriver
    /\ routine = NoRoutine
    /\ postfix = NotParsedChain(<<>>, <<>>)
    /\ merged = NotMerged(SpanNew(0, 0, 1, 1), SpanNew(0, 0, 1, 1))
    /\ lookup \in {NewLookup(exist, current) :
                        exist \in SUBSET LookupFiles, current \in LookupCurrents}
    /\ x = NewTracked({})
    /\ files = OnlyMain(<<>>)
    /\ predefined = {}
    /\ frames = <<>>
    /\ result = "running"
    /\ error = ""
    /\ ast = NoAst
    /\ pratt = NotParsed(<<>>)

\* parser.include_paths.push(dir)
RegisterIncludePath ==
    \E dir \in LookupDirs :
        /\ Len(lookup.include_paths) < MaxPaths
        /\ lookup' = [lookup EXCEPT !.include_paths = Append(@, dir)]
        /\ UNCHANGED <<sourceVars, pratt, merged, postfix, routine, driver>>

\* self.resolve_include_path(filename)
ResolveInclude ==
    \E filename \in LookupNames :
        /\ lookup' = [lookup EXCEPT !.last =
                        [called |-> TRUE, filename |-> filename,
                         paths |-> lookup.include_paths,
                         out |-> ResolveIncludePath(lookup.exist, lookup.current,
                                                    lookup.include_paths, filename)]]
        /\ UNCHANGED <<sourceVars, pratt, merged, postfix, routine, driver>>

NextResolve == RegisterIncludePath \/ ResolveInclude

SpecResolve == InitResolve /\ [][NextResolve]_vars

(***************************************************************************)
(* Expressions: literal 1, an operator, literal 2, an operator, ...        *)
(***************************************************************************)
OperatorKinds == DOMAIN BinaryOpOf
ExpressionOf(ops) ==
    [i \in 1..(2 * Len(ops) + 1) |->
        IF i % 2 = 1 THEN TInteger((i + 1) \div 2) ELSE TOper(ops[i \div 2])]
Expressions == {ExpressionOf(ops) : ops \in SeqsUpTo(OperatorKinds, MaxOps)}

InitExpr ==
    /\ driver = NoDriver
    /\ routine = NoRoutine
    /\ postfix = NotParsedChain(<<>>, <<>>)
    /\ merged = NotMerged(SpanNew(0, 0, 1, 1), SpanNew(0, 0, 1, 1))
    /\ pratt \in {NotParsed(toks) : toks \in Expressions}
    /\ lookup = NewLookup({}, None)
    /\ x = NewTracked({})
    /\ files = OnlyMain(<<>>)
    /\ predefined = {}
    /\ frames = <<>>
    /\ result = "running"
    /\ error = ""
    /\ ast = NoAst

\* self.parse_expression()
ParseExpressionCall ==
    /\ ~pratt.called
    /\ pratt' = [pratt EXCEPT !.called = TRUE, !.out = ParseExpression(pratt.toks)]
    /\ UNCHANGED <<sourceVars, lookup, merged, postfix, routine, driver>>

NextExpr == ParseExpressionCall

SpecExpr == InitExpr /\ [][NextExpr]_vars

(***************************************************************************)
(* Spans of a text with lines of three bytes: the line and the column of a *)
(* span are those of its start.                                            *)
(***************************************************************************)
SpanFrom(start, end) == SpanNew(start, end, (start \div 3) + 1, (start % 3) + 1)
Spans ==
    {sp \in {SpanFrom(start, end) : start \in 0..MaxPos, end \in 0..MaxPos} :
        sp.start <= sp.end}

InitSpan ==
    /\ driver = NoDriver
    /\ routine = NoRoutine
    /\ postfix = NotParsedChain(<<>>, <<>>)
    /\ merged \in {NotMerged(a, b) : a \in Spans, b \in Spans}
    /\ x = NewTracked({})
    /\ files = OnlyMain(<<>>)
    /\ predefined = {}
    /\ frames = <<>>
    /\ result = "running"
    /\ error = ""
    /\ ast = NoAst
    /\ lookup = NewLookup({}, None)
    /\ pratt = NotParsed(<<>>)

\* a.merge(b)
MergeCall ==
    /\ ~merged.called
    /\ merged' = [merged EXCEPT !.called = TRUE, !.out = Merge(merged.a, merged.b)]
    /\ UNCHANGED <<sourceVars, lookup, pratt, postfix, routine, driver>>

NextSpan == MergeCall

SpecSpan == InitSpan /\ [][NextSpan]_vars

(***************************************************************************)
(* Operands: the identifier p and a chain of ^, .f and [1].                *)
(***************************************************************************)
PostfixKinds == {"deref", "field", "index"}
PostfixTokens(kind) ==
    CASE kind = "deref" -> <<TOper("Caret")>>
      [] kind = "field" -> <<TOper("Dot"), TIdentifier("f")>>
      [] kind = "index" -> <<TOper("LeftBracket"), TInteger(1), TOper("RightBracket")>>
RECURSIVE ChainTokens(_)
ChainTokens(chain) ==
    IF chain = <<>> THEN <<>> ELSE PostfixTokens(Head(chain)) \o ChainTokens(Tail(chain))
OperandOf(chain) == <<TIdentifier("p")>> \o ChainTokens(chain)

InitPostfix ==
    /\ driver = NoDriver
    /\ routine = NoRoutine
    /\ postfix \in {NotParsedChain(chain, OperandOf(chain)) :
                        chain \in SeqsUpTo(PostfixKinds, MaxPostfix)}
    /\ merged = NotMerged(SpanNew(0, 0, 1, 1), SpanNew(0, 0, 1, 1))
    /\ x = NewTracked({})
    /\ files = OnlyMain(<<>>)
    /\ predefined = {}
    /\ frames = <<>>
    /\ result = "running"
    /\ error = ""
    /\ ast = NoAst
    /\ lookup = NewLookup({}, None)
    /\ pratt = NotParsed(<<>>)

\* self.parse_prefix() at the identifier
ParseOperandCall ==
    /\ ~postfix.called
    /\ postfix' = [postfix EXCEPT !.called = TRUE, !.out = ParseIdentifierOperand(postfix.toks)]
    /\ UNCHANGED <<sourceVars, lookup, pratt, merged, routine, driver>>

NextPostfix == ParseOperandCall

SpecPostfix == InitPostfix /\ [][NextPostfix]_vars

\* ---- routine declarations: parse_procedure_decl_impl and the like ----
MaxSections == 1
MaxStmts == 2
TString(s) == [k |-> "StringLiteral", value |-> s]
TStatement == [k |-> "Stmt", value |-> "s"]
ParamTokens ==
    <<TOper("LeftParen"), TIdentifier("x"), TOper("Colon"), TIdentifier("T"),
      TOper("RightParen")>>
ReturnTokens == <<TOper("Colon"), TIdentifier("T")>>
Headers ==
    {<<TOper("KwProcedure"), TIdentifier("p")>> \o ps \o <<TOper("Semicolon")>> :
        ps \in {<<>>, ParamTokens}}
    \cup {<<TOper("KwFunction"), TIdentifier("f")>> \o ps \o ReturnTokens
              \o <<TOper("Semicolon")>> : ps \in {<<>>, ParamTokens}}
    \cup {<<TOper("KwOperator"), TOper("Plus")>> \o ps \o ReturnTokens
              \o <<TOper("Semicolon")>> : ps \in {<<>>, ParamTokens}}
RECURSIVE StmtTokens(_)
StmtTokens(n) == IF n = 0 THEN <<>> ELSE <<TStatement, TOper("Semicolon")>> \o StmtTokens(n - 1)
SectionTokens == {TOper(k) : k \in DOMAIN SectionOf}
BodyTails ==
    {secs \o <<TOper("KwBegin")>> \o StmtTokens(n) \o <<TOper("KwEnd"), TOper("Semicolon")>> :
        secs \in SeqsUpTo(SectionTokens, MaxSections), n \in 0..MaxStmts}
Tails ==
    BodyTails
    \cup {<<TOper("KwForward"), TOper("Semicolon")>>, <<TOper("KwForward")>>,
          <<TOper("KwExternal"), TOper("Semicolon")>>,
          <<TOper("KwExternal"), TString("lib"), TOper("Semicolon")>>,
          <<TOper("KwExternal"), TIdentifier("lib"), TOper("Semicolon")>>,
          <<>>, <<TOper("KwEnd")>>, <<TOper("KwBegin"), TStatement>>}

InitRoutine ==
    /\ driver = NoDriver
    /\ routine \in {[toks |-> h \o t, in_class_context |-> c, decl |-> RoutineFailed,
                     called |-> FALSE] : h \in Headers, t \in Tails, c \in BOOLEAN}
    /\ postfix = NotParsedChain(<<>>, OperandOf(<<>>))
    /\ merged = NotMerged(SpanNew(0, 0, 1, 1), SpanNew(0, 0, 1, 1))
    /\ x = NewTracked({})
    /\ files = OnlyMain(<<>>)
    /\ predefined = {}
    /\ frames = <<>>
    /\ result = "running"
    /\ error = ""
    /\ ast = NoAst
    /\ lookup = NewLookup({}, None)
    /\ pratt = NotParsed(<<>>)

\* parse_procedure_decl, parse_function_decl, parse_operator_decl and the
\* class variants of the first two, at the keyword of the declaration
ParseRoutineCall ==
    /\ ~routine.called
    /\ routine' = [routine EXCEPT !.called = TRUE,
                                  !.decl = ParseRoutine(routine.toks, routine.in_class_context)]
    /\ UNCHANGED <<sourceVars, lookup, pratt, merged, postfix, driver>>

NextRoutine == ParseRoutineCall

SpecRoutine == InitRoutine /\ [][NextRoutine]_vars

\* ---- the driver: main ----
MaxArgs == 4
Commands ==
    {"build", "compile", "check", "emit-ast", "emit-ir", "asm", "help", "--help", "-h",
     "BUILD", "run", "a.pas"}
Operands == {"a.pas", "help"}
ArgLists ==
    {<<"spc">>} \cup
    {<<"spc", c>> \o rest : c \in Commands, rest \in SeqsUpTo(Operands, MaxArgs - 2)}

InitDriver ==
    /\ driver \in {[NoDriver EXCEPT !.args = a] : a \in ArgLists}
    /\ routine = NoRoutine
    /\ postfix = NotParsedChain(<<>>, OperandOf(<<>>))
    /\ merged = NotMerged(SpanNew(0, 0, 1, 1), SpanNew(0, 0, 1, 1))
    /\ x = NewTracked({})
    /\ files = OnlyMain(<<>>)
    /\ predefined = {}
    /\ frames = <<>>
    /\ result = "running"
    /\ error = ""
    /\ ast = NoAst
    /\ lookup = NewLookup({}, None)
    /\ pratt = NotParsed(<<>>)

\* main, lines 20-37 and the checks of each arm before the call
Main ==
    /\ driver.pc = "main"
    /\ driver' = Dispatch(driver)
    /\ UNCHANGED <<sourceVars, lookup, pratt, merged, postfix, routine>>

\* the operation of Compiler returns Ok or Err and main matches on it
CompilerReturns ==
    /\ driver.pc = "compiling"
    /\ \E res \in {"Ok", "Err"} :
           driver' = Exited([driver EXCEPT !.res = res], OperationExit(res))
    /\ UNCHANGED <<sourceVars, lookup, pratt, merged, postfix, routine>>

NextDriver == Main \/ CompilerReturns

SpecDriver == InitDriver /\ [][NextDriver]_vars

\* the command of the run, if one was given
Command == IF Len(driver.args) >= 2 THEN driver.args[2] ELSE ""
Succeeded == driver.res = "Ok"

\* C26: the driver exits with status 1 when no command is given, when the
\* command is unknown, when build, compile, check, emit-ast, emit-ir or asm
\* has no input file, and when the operation returns an error; it exits with
\* status 0 exactly when the operation succeeds or the command is a help one.
C26_ExitStatus ==
    driver.pc = "exited" =>
        /\ driver.code \in {ExitSuccess, ExitFailure}
        /\ Len(driver.args) < 2 => driver.code = ExitFailure
        /\ (Len(driver.args) >= 2 /\ ~NeedsInput(Command) /\ ~IsHelp(Command))
               => driver.code = ExitFailure
        /\ (NeedsInput(Command) /\ Len(driver.args) < 3) => driver.code = ExitFailure
        /\ driver.res = "Err" => driver.code = ExitFailure
        /\ driver.code = ExitSuccess <=> (Succeeded \/ IsHelp(Command))
C26_Witness ==
    /\ driver.pc = "exited" /\ driver.res = "Err" /\ driver.op = "emit_ir"
    /\ driver.output_file = Some("help")

\* C1: after any sequence of directives, is_active is true iff every open
\* conditional, outermost to innermost, is in a branch whose condition holds.
C1_ActiveIsConjunction == x.ev.active = InActiveBranch(x.hist)

\* C2: the ENDIF that matches an opener brings is_active and the conditional
\* stack back to what they were just before that opener.
C2_EndIfRestores ==
    (x.last.kind = "EndIf" /\ x.last.ok) =>
        (x.ev.active = x.last.preActive /\ x.ev.stack = x.last.preStack)

\* C3: once a branch of a chain has been active, every later ELSEIF and the
\* ELSE of that chain evaluate to inactive.
C3_OneBranchActive ==
    (x.last.kind \in {"ElseIf", "Else"} /\ x.last.ok /\ x.last.seenBefore) =>
        ~x.ev.active

\* C4: a skip started by an inactive opener ends at the ELSE or ENDIF of that
\* opener: nested IFDEF, IFNDEF and IF all raise the depth, so when the skip
\* ends the conditional stack is as deep as at the opener (at its ELSE) or
\* one shorter (at its ENDIF).
C4_SkipEndsAtOwnEnd ==
    \A i \in 1..Len(frames) :
        LET fr == frames[i] IN
        /\ (fr.note = "skipEndEndIf" /\ fr.skipFrom \in Openers) =>
                Len(fr.x.ev.stack) = fr.skipBase - 1
        /\ (fr.note = "skipEndElse" /\ fr.skipFrom \in Openers) =>
                Len(fr.x.ev.stack) = fr.skipBase

\* The chain of C5 with conditions c1 and c2 is the body of the program.
IsChain(c1, c2) == files.main = Header \o Chain(c1, c2) \o Footer
ChainBranch(c1, c2) ==
    IF EvaluateExpression(predefined, c1) THEN <<"KA">>
    ELSE IF EvaluateExpression(predefined, c2) THEN <<"KB">>
    ELSE <<"KC">>

\* C5: of {$IF c1} A {$ELSEIF c2} B {$ELSE} C {$ENDIF} the tokens of the first
\* branch whose condition holds are parsed, those of the other branches are
\* discarded.
C5_FirstTrueBranchParsed ==
    \A c1 \in ChainConds, c2 \in ChainConds :
        (IsChain(c1, c2) /\ result # "running") =>
            (result = "Ok" /\ ast.block.const_decls = ChainBranch(c1, c2))

\* C6: whenever parse_program returns Ok the conditional stack is empty.
C6_OkMeansBalanced == result = "Ok" => frames[1].x.ev.stack = <<>>

\* C7: a DEFINE or UNDEF lying in an inactive branch leaves the symbol set
\* unchanged, whether the parser evaluates it in one of its loops or while it
\* is skipping.
C7_InactiveDefineNoEffect ==
    \A i \in 1..Len(frames) :
        LET t == frames[i].x IN
        (t.last.kind \in {"Define", "Undef"} /\ ~t.last.inBranch) =>
            t.ev.syms = t.last.symsBefore

\* C8: when an include returns, the including parser's symbol set is the one
\* the included file's directives left.
C8_IncludeSymbolsPersist ==
    \A i \in 1..Len(frames) :
        frames[i].note = "includeReturn" => frames[i].x.ev.syms = frames[i].childSyms

\* The program that includes GuardFile once, and its AST.
GuardedOnce == Header \o <<Inc("a")>> \o Footer
GuardedTwice == Header \o <<Inc("a"), Inc("a")>> \o Footer
GuardedAst ==
    ProgramNode("P", <<>>,
        [EmptyBlock EXCEPT
            !.directives = IF "A" \in predefined THEN <<>>
                           ELSE <<DirectiveNode(DIfNDef("A")), DirectiveNode(DDefine("A")),
                                  DirectiveNode(DEndIf)>>,
            !.const_decls = IF "A" \in predefined THEN <<>> ELSE <<"KG">>,
            !.statements = <<"s">>])

\* C9: including a guard-wrapped file twice succeeds and yields the AST of
\* including it once.
C9_GuardedIncludeIdempotent ==
    (files.main = GuardedTwice /\ files.a = GuardFile /\ result # "running") =>
        (result = "Ok" /\ ast = GuardedAst)

\* The include graph of sources whose only directives are includes, all of
\* them active.
OnlyIncludes(src) ==
    \A i \in 1..Len(src) : src[i].k = "Directive" => src[i].d.t = "Include"
Includes(f) ==
    {files[f][i].d.s : i \in {j \in 1..Len(files[f]) : files[f][j].k = "Directive"}}
IncludedBy(S) == S \cup UNION {Includes(f) : f \in S}
Reaches(f) == IncludedBy(IncludedBy(Includes(f)))
MainOnIncludeCycle ==
    /\ \A f \in DOMAIN files : files[f] # NoFile /\ OnlyIncludes(files[f])
    /\ "main" \in Reaches("main")

\* C10: parsing a file that lies on a cycle of includes ends with the
\* circular-include error.
C10_CycleIsReported ==
    (MainOnIncludeCycle /\ result # "running") => (result = "Err" /\ error = "Circular")

\* C11: when an include in the declaration part of a block returns, every
\* section of the included Block, the statements too, has been appended to
\* the host block's section of the same name.
C11_IncludedSectionsAppended ==
    \A i \in 1..Len(frames) :
        (frames[i].note = "includeReturn" /\ frames[i].pc = "block") =>
            frames[i].block = MergeBlock(frames[i].hostBefore, frames[i].childBlock)

\* The const declarations of the include-expanded source, in source order,
\* for sources without conditionals; includes are followed depth levels deep.
IsInclude(tok) == tok.k = "Directive" /\ tok.d.t = "Include"
RECURSIVE ExpandedConsts(_, _)
ConstsAt(tok, depth) ==
    IF tok.k = "Decl" /\ tok.sec = "const" THEN <<tok.n>>
    ELSE IF IsInclude(tok) /\ depth > 0 /\ files[tok.d.s] # NoFile
    THEN ExpandedConsts(files[tok.d.s], depth - 1)
    ELSE <<>>
ExpandedConsts(src, depth) ==
    IF src = <<>> THEN <<>>
    ELSE ConstsAt(Head(src), depth) \o ExpandedConsts(Tail(src), depth)
InOrder(v, e) ==
    \A i, j \in 1..Len(v) :
        i < j => \E p, q \in 1..Len(e) : p < q /\ e[p] = v[i] /\ e[q] = v[j]

\* C12: of two const declarations the one that comes earlier in the
\* include-expanded source has the smaller index in const_decls, also when
\* one of them comes from an include placed before PROGRAM.
C12_SectionOrderIsSourceOrder ==
    (result = "Ok" /\ \A f \in DOMAIN files : OnlyIncludes(files[f])) =>
        InOrder(ast.block.const_decls, ExpandedConsts(files.main, 2))

\* C13: an included file is accepted only whole: when its parser returns its
\* Block, every token of the file has been parsed; a token that is no
\* declaration and no statement is an error, not the end of the file.
C13_IncludedFileParsedWhole ==
    \A i \in 2..Len(frames) :
        frames[i].pc = "done" => frames[i].pos = Len(files[frames[i].file]) + 1

\* C14: at the end of input in an inactive branch the parser stops with the
\* unmatched-conditional error: it never calls advance there.  Stated for
\* the loops of parse_block and parse_declarations_only.
C14_NoAdvanceAtEofWhileInactive ==
    \A i \in 1..Len(frames) :
        ~(/\ frames[i].pc \in {"block", "decls"}
          /\ frames[i].note = "advanceAtEof"
          /\ ~frames[i].x.ev.active)

\* C15: of {$IFDEF A} program P1 ... {$ELSE} program P2 ... {$ENDIF} the parse
\* returns the Program P1 when A is defined (predefined or by an earlier
\* DEFINE) and P2 when it is not, and the closing ENDIF is consumed.
C15_ElseSelectsProgram ==
    \A before \in TwoProgramsBefore :
        (files.main = TwoPrograms(before) /\ result # "running") =>
            /\ result = "Ok"
            /\ ast.name = IF "A" \in predefined \/ before = <<TDir(DDefine("A"))>>
                           THEN "P1" ELSE "P2"
            /\ frames[1].x.ev.stack = <<>>
            /\ frames[1].pos = Len(files.main) + 1

C15_Witness ==
    /\ files.main = TwoPrograms(<<>>)
    /\ "A" \notin predefined
    /\ result = "Ok"
    /\ ast.name = "P2"

\* C16: ELSEIF, ELSE or ENDIF evaluated on an empty conditional stack returns
\* an error and leaves symbol set, stack and is_active as they were.
C16_UnmatchedIsErrorWithoutEffect ==
    [][(x.ev.stack = <<>> /\ x'.last.kind \in {"ElseIf", "Else", "EndIf"}) =>
            (~x'.last.ok /\ x'.ev = x.ev)]_vars

C16_Witness ==
    /\ x.last.kind = "EndIf"
    /\ ~x.last.ok
    /\ x.ev.syms = {"A", "B"}
    /\ x.ev.stack = <<>>

\* C17: {$IF NOT e} is active iff the parent is active and e is false.
C17_NotNegates ==
    (x.last.kind = "If" /\ Len(x.last.e) >= 2 /\ x.last.e[1].k = "not") =>
        x.ev.active = (x.hist[Len(x.hist)].preActive
                        /\ ~EvaluateExpression(x.last.symsBefore, Tail(x.last.e)))

\* C18: resolve_include_path returns the first candidate that exists, of: the
\* filename itself if absolute, the filename in the directory of the current
\* file if there is one, the filename in each include path in registration
\* order, the filename from the current directory; and the error 'Include
\* file not found' if none exists.
IncludeCandidates(current, paths, filename) ==
    (IF IsAbsolute(filename) THEN <<filename>> ELSE <<>>)
        \o (IF current.some THEN <<Join(Parent(current.v).v, filename)>> ELSE <<>>)
        \o [i \in 1..Len(paths) |-> Join(paths[i], filename)]
        \o <<filename>>
FirstExisting(exist, cands) ==
    LET ex == {i \in 1..Len(cands) : Exists(exist, cands[i])} IN
    IF ex = {} THEN NotFound
    ELSE Found(cands[CHOOSE i \in ex : \A j \in ex : i <= j])
C18_FirstExistingCandidate ==
    lookup.last.called =>
        lookup.last.out = FirstExisting(lookup.exist,
            IncludeCandidates(lookup.current, lookup.last.paths, lookup.last.filename))
C18_Witness ==
    /\ lookup.last.called
    /\ lookup.current = Some(PathOf(FALSE, <<"src", "main.pas">>))
    /\ lookup.exist = {PathOf(TRUE, <<"w", "src", "a.inc">>), PathOf(TRUE, <<"lib", "a.inc">>),
                       PathOf(TRUE, <<"w", "a.inc">>)}
    /\ lookup.last.paths = <<PathOf(FALSE, <<"inc">>), PathOf(TRUE, <<"lib">>)>>
    /\ lookup.last.out = Found(PathOf(FALSE, <<"src", "a.inc">>))

\* C19: an INCLUDE directive in an inactive branch is never resolved or read:
\* no parser has called handle_include_directive for a directive that is not
\* in an active branch, and no 'Include file not found' or 'Circular include'
\* error comes from one.
C19_InactiveIncludeUntouched ==
    /\ \A i \in 1..Len(frames) :
            frames[i].note \in {"include", "includeReturn"} => frames[i].x.last.inBranch
    /\ (result = "Err" /\ error \in {"IncludeNotFound", "Circular"}) =>
            InActiveBranch(Top.x.hist)

\* C20: the tree parse_expression builds from integer literals and binary
\* operators is the one of the precedence table (OR 1, AND 2, relational 3,
\* additive 4, multiplicative 5): its root is the last operator of the lowest
\* level, so that operators of one level group left to right.
TableLevel(k) ==
    CASE k = "KwOr" -> 1
      [] k = "KwAnd" -> 2
      [] k \in {"Equal", "NotEqual", "Less", "LessEqual", "Greater", "GreaterEqual"} -> 3
      [] k \in {"Plus", "Minus"} -> 4
      [] k \in {"Star", "Slash", "KwDiv", "KwMod"} -> 5
OperatorAt(toks, i) == toks[2 * i].k
RootOf(toks, lo, hi) ==
    CHOOSE r \in lo..(hi - 1) :
        /\ \A i \in lo..(hi - 1) : TableLevel(OperatorAt(toks, r)) <= TableLevel(OperatorAt(toks, i))
        /\ \A i \in (r + 1)..(hi - 1) : TableLevel(OperatorAt(toks, r)) < TableLevel(OperatorAt(toks, i))
RECURSIVE TableTree(_, _, _)
TableTreeAt(toks, lo, hi, r) ==
    BinaryExpr(BinaryOpOf[OperatorAt(toks, r)], TableTree(toks, lo, r), TableTree(toks, r + 1, hi))
TableTree(toks, lo, hi) ==
    IF lo = hi THEN LiteralExpr(lo) ELSE TableTreeAt(toks, lo, hi, RootOf(toks, lo, hi))
C20_PrecedenceTable ==
    pratt.called =>
        pratt.out = Parsed(TableTree(pratt.toks, 1, (Len(pratt.toks) + 1) \div 2),
                           Len(pratt.toks) + 1)
C20_Witness ==
    /\ pratt.called
    /\ pratt.toks = ExpressionOf(<<"KwOr", "Minus", "Minus">>)
    /\ pratt.out.node =
            BinaryExpr("Or", LiteralExpr(1),
                BinaryExpr("Subtract",
                    BinaryExpr("Subtract", LiteralExpr(2), LiteralExpr(3)), LiteralExpr(4)))

\* The value of an expression by the grammar
\*   disjunction := conjunction ('OR' conjunction)*
\*   conjunction := unary ('AND' unary)*
\*   unary := 'NOT' unary | primary
RECURSIVE GrammarUnary(_, _)
GrammarUnary(syms, e) ==
    IF e[1].k = "not" THEN ~GrammarUnary(syms, Tail(e))
    ELSE IF e[1].k = "lit" THEN e[1].s = "TRUE"
    ELSE e[1].s \in syms
GrammarConjunction(syms, e) ==
    \A i \in 1..Len(SplitAt(e, "and")) : GrammarUnary(syms, SplitAt(e, "and")[i])
GrammarDisjunction(syms, e) ==
    \E i \in 1..Len(SplitAt(e, "or")) : GrammarConjunction(syms, SplitAt(e, "or")[i])

\* C28: in an IF expression NOT binds tighter than AND and AND tighter than
\* OR: NOT A OR B is (NOT A) OR B, A OR NOT B is A OR (NOT B) and
\* A AND B OR B is (A AND B) OR B, whatever symbols are defined.
C28_NotAndOrBinding ==
    (x.last.kind = "If" /\ x.last.e \in {NotAOrB, AOrNotB, AAndBOrB}) =>
        x.ev.active = (x.hist[Len(x.hist)].preActive
                        /\ GrammarDisjunction(x.last.symsBefore, x.last.e))

\* C29: Defined(S) is recognised in every spelling of the function name, as
\* the whole expression and as an operand of AND or OR: the IF is active iff
\* the parent is active and the expression, read with Defined(S) as "S is
\* defined", holds.
C29_DefinedAnySpelling ==
    (x.last.kind = "If" /\ x.last.e \in DefinedExprs) =>
        x.ev.active = (x.hist[Len(x.hist)].preActive
                        /\ GrammarDisjunction(x.last.symsBefore, x.last.e))

\* C27: parser and evaluator agree on activeness: the evaluator is inactive
\* whenever skip_until_conditional_end is about to discard a token that is no
\* directive, and active whenever a declaration or a statement has been
\* consumed by its grammar rule.
C27_SkipOnlyWhileInactive ==
    /\ (Running /\ Top.pc = "skip" /\ Token.k \notin {"Directive", "Eof"}) =>
            ~Top.x.ev.active
    /\ \A i \in 1..Len(frames) :
            frames[i].note \in {"decl", "stmt"} => frames[i].x.ev.active

\* C30: a sub-parser works on a copy of the included-set.  When
\* handle_include_directive starts a sub-parser the including parser's
\* included_files gains the included file and nothing else, and when the
\* sub-parser returns it is as it was: what the sub-parser included is not
\* added.  Hence the parse of main that includes a and b, which both include
\* c, reports no circular include.
IncludeCopiesIncludedSet ==
    /\ Len(frames') > Len(frames) =>
            frames'[Len(frames)].included =
                frames[Len(frames)].included \cup {frames'[Len(frames')].file}
    /\ (Len(frames') < Len(frames) /\ Len(frames') > 0) =>
            frames'[Len(frames')].included = frames[Len(frames')].included
C30_IncludedSetIsCopied ==
    /\ [](files = Diamond => error # "Circular")
    /\ [][IncludeCopiesIncludedSet]_vars
C30_Witness ==
    /\ files = Diamond
    /\ result = "Ok"
    /\ ast.block.const_decls = <<"KC", "KC">>
    /\ frames[1].included = {"a", "b"}

\* C22: Span::merge(a, b) has the smaller of the two starts, the larger of
\* the two ends, and the line and column of the operand that starts first, in
\* either argument order.
C22_MergeIsHullFromFirst ==
    merged.called =>
        /\ merged.out.start = Min(merged.a.start, merged.b.start)
        /\ merged.out.end = Max(merged.a.end, merged.b.end)
        /\ merged.out.line =
                (IF merged.a.start <= merged.b.start THEN merged.a ELSE merged.b).line
        /\ merged.out.column =
                (IF merged.a.start <= merged.b.start THEN merged.a ELSE merged.b).column

\* C21: the postfix operators after an identifier are applied left to right,
\* each wrapping the expression built so far, whatever their sequence:
\* p^^.f[1] is IndexExpr(FieldExpr(DerefExpr(DerefExpr(p)), f), 1).
WrapWith(expr, kind) ==
    CASE kind = "deref" -> DerefExpr(expr)
      [] kind = "field" -> FieldExpr(expr, "f")
      [] kind = "index" -> IndexExpr(expr, LiteralExpr(1))
RECURSIVE Wrapped(_, _)
Wrapped(expr, chain) ==
    IF chain = <<>> THEN expr ELSE Wrapped(WrapWith(expr, Head(chain)), Tail(chain))
C21_PostfixLeftToRight ==
    postfix.called =>
        postfix.out = Parsed(Wrapped(IdentExpr("p"), postfix.chain), Len(postfix.toks) + 1)
C21_Witness ==
    /\ postfix.called
    /\ postfix.chain = <<"deref", "deref", "field", "index">>
    /\ postfix.out.node =
            IndexExpr(FieldExpr(DerefExpr(DerefExpr(IdentExpr("p"))), "f"), LiteralExpr(1))

\* the token after the ";" that ends the header of the declaration in routine
AfterHeader(toks) ==
    KindAt(toks, 1 + CHOOSE i \in 1..Len(toks) :
                        /\ toks[i].k = "Semicolon"
                        /\ \A j \in 1..(i - 1) : toks[j].k # "Semicolon")
BodyKeywords ==
    {"KwBegin", "KwLabel", "KwConst", "KwResourcestring", "KwType", "KwVar",
     "KwThreadvar", "KwOperator", "KwProcedure", "KwFunction"}
ClassifiedAs(decl, next) ==
    CASE next = "KwForward" -> decl.is_forward /\ ~decl.is_external
      [] next = "KwExternal" -> decl.is_external /\ ~decl.is_forward
      [] next \in BodyKeywords -> decl.parsed_block /\ ~decl.is_forward
      [] OTHER -> decl.is_forward /\ ~decl.parsed_block

\* C24: a procedure or function is classified by the token after the ";" of
\* its header: FORWARD forward, EXTERNAL external, BEGIN or a declaration
\* keyword (PROCEDURE and FUNCTION included) a body parsed by parse_block,
\* anything else an implicit forward, in class context as outside it.
C24_ClassifiedByNextToken ==
    (routine.called /\ routine.decl.ok /\ routine.decl.node \in {"ProcDecl", "FuncDecl"})
        => ClassifiedAs(routine.decl, AfterHeader(routine.toks))

Encloses(node, child) == node.start <= child.start /\ child.end <= node.end

\* C23: the span of a routine declaration built by a successful parse
\* encloses the spans of its children: its parameters, its return type and
\* its block, forward and external declarations with parameters included.
C23_SpanEnclosesChildren ==
    (routine.called /\ routine.decl.ok) =>
        /\ \A i \in DOMAIN routine.decl.children :
               Encloses(routine.decl.span, routine.decl.children[i])
        /\ Encloses(routine.decl.span, routine.decl.block_span)

\* C25: in every ProcDecl, FuncDecl and OperatorDecl the parser produces,
\* is_forward and is_external are not both true, external_name is present
\* only with is_external, a forward or external declaration has an empty
\* block, and a routine with a BEGIN...END body has both flags false.
C25_FlagsConsistent ==
    (routine.called /\ routine.decl.ok) =>
        /\ ~(routine.decl.is_forward /\ routine.decl.is_external)
        /\ routine.decl.external_name.some => routine.decl.is_external
        /\ (routine.decl.is_forward \/ routine.decl.is_external)
               => routine.decl.block = EmptyBlock
        /\ (routine.decl.parsed_block \/ AfterHeader(routine.toks) = "KwBegin")
               => ~routine.decl.is_forward /\ ~routine.decl.is_external
C25_Witness ==
    /\ routine.called /\ routine.decl.ok
    /\ routine.decl.is_external /\ routine.decl.external_name = Some("lib")
    /\ routine.decl.node = "OperatorDecl"

====
